---- MODULE Spec2Model ----
(***************************************************************************)
(* A model of gonfig (github.com/im-kulikov/gonfig): the field tree walker *)
(* (ReflectFieldsOf), the environment hierarchy builder (PrepareEnvs), the *)
(* default-value coercion (SetDefaults), required-field validation and the *)
(* loader that sequences the sources (New/Load).                           *)
(*                                                                         *)
(* Text is modelled as a sequence of one-character strings, so that        *)
(* prefix tests, splitting and joining are computed as the code computes   *)
(* them.  A Go nil / absent value is modelled as the empty sequence and a  *)
(* present one as a one-element sequence.                                  *)
(***************************************************************************)
EXTENDS Integers, Sequences, FiniteSets, TLC

VARIABLES
    \* ---- ReflectFieldsOf (reflection.go) ----
    input,      \* the `in` argument of ReflectFieldsOf
    options,    \* the ReflectOptions argument
    structs,    \* the frame list `structs`
    j,          \* index of the frame being visited (1-based)
    i,          \* index of the field being visited in that frame (1-based)
    pairs,        \* the pairs handed to yield so far, in order
    wpc,        \* position of the iterator: "start", "loop", "done"
    stopped,    \* TRUE once the consumer returned false from yield
    \* ---- PrepareEnvs (loader_envs.go) ----
    envs,       \* the `envs` argument: a list of raw NAME=VALUE texts
    prefix,     \* the `prefix` argument
    out,        \* the map `out` being built
    e,          \* index of the entry the range loop is at (1-based)
    epc,        \* "loop" while ranging over envs, "done" after return
    \* ---- New / Load (loader.go) ----
    target,     \* the `v` argument of Load: what the caller passes as dest
    dest,       \* the record `v` points at: the value held by each slot
    config,     \* the Config handed to New
    svc,        \* the *loader built by setLoaderDefaults: Config and groups
    ord,        \* index into svc.LoaderOrder of the range loop (1-based)
    lpc,        \* "order" in the loop, "validate", "done", "panic"
    lerr,       \* the error Load returned
    \* ---- one field coerced by the loop body of SetDefaults ----
    cfield,     \* the type of the field
    cvalue,     \* the text of its default annotation
    cslot,      \* the value the field holds
    cerr,       \* the error of tryCustomTypes or setDefaultValue, "nil" if none
    cpc,        \* "call" before the loop body ran, "done" after
    \* ---- ParseTagOptions (reflection.go) ----
    ptag,       \* the `tag` argument
    popt,       \* the TagOptions returned
    ppc,        \* "call" before ParseTagOptions ran, "done" after
    \* ---- the options of New and the calls Load makes (loader.go) ----
    lopts,      \* the `options` argument of New
    lopt,       \* index into options of the range loop (1-based)
    lcalls      \* what Load has called so far, in order

walkVars == <<input, options, structs, j, i, pairs, wpc, stopped>>
envVars == <<envs, prefix, out, e, epc>>
loadVars == <<target, dest, config, svc, ord, lpc, lerr>>
coerceVars == <<cfield, cvalue, cslot, cerr, cpc>>
tagVars == <<ptag, popt, ppc>>
optionVars == <<lopts, lopt, lcalls>>
notWalk == <<envVars, loadVars, coerceVars, tagVars, optionVars>>
notEnv == <<walkVars, loadVars, coerceVars, tagVars, optionVars>>
notLoad == <<walkVars, envVars, coerceVars, tagVars, optionVars>>
notCoerce == <<walkVars, envVars, loadVars, tagVars, optionVars>>
notTag == <<walkVars, envVars, loadVars, coerceVars, optionVars>>
notNew == <<walkVars, envVars, coerceVars, tagVars>>
vars == <<walkVars, envVars, loadVars, coerceVars, tagVars, optionVars>>

-----------------------------------------------------------------------------
(* Go types of the records the model walks.                                *)

StructTypes ==
    {"ReflectStruct", "struct{NestedStringField}", "EmbedReflect",
     "reflectNestedStruct", "Tree", "Branch", "Twig", "leafHolder", "mixin",
     "net.IPNet",
     "Service", "Database", "Strict", "Sealed",
     "User", "Address", "NestedAnonymous", "struct{Field2}",
     "Account", "Profile", "Limits", "struct{Tail}",
     "Marked", "custom"}

\* reflect.Type.Kind() of the types the model uses
KindOf(t) ==
    CASE t \in StructTypes -> "struct"
      [] t \in {"*int", "*Branch", "*Profile"} -> "ptr"
      [] t \in {"net.IP", "net.IPMask", "[]int8", "[]string", "[]time.Duration"}
            -> "slice"
      [] t = "[2]int8" -> "array"
      [] t = "map[string]int8" -> "map"
      [] t = "string" -> "string"
      [] t \in {"int", "int8", "time.Duration"} -> "int"
      [] t = "uint8" -> "uint"
      [] t = "interface {}" -> "interface"
      [] OTHER -> "invalid"

\* reflect.Type.Bits() of the integer types
Bits(t) == IF t \in {"int8", "uint8"} THEN 8 ELSE 64

\* reflect.Type.Elem() of the slice and pointer types
ElemOf(t) ==
    CASE t \in {"[]int8", "[2]int8", "map[string]int8"} -> "int8"
      [] t = "[]string" -> "string"
      [] t = "[]time.Duration" -> "time.Duration"
      [] t = "*int" -> "int"
      [] t = "*Branch" -> "Branch"
      [] t = "*Profile" -> "Profile"
      [] OTHER -> "uint8"

\* reflect.Type.Key() of the map types
KeyOf(t) == "string"

\* reflect.Type.Len() of the array types
ArrayLen(t) == IF t = "[2]int8" THEN 2 ELSE 0

\* a struct tag: the annotations the loaders read, each a text ("" if absent)
TagOf(default, env, flag, required) ==
    [default |-> default, env |-> env, flag |-> flag, required |-> required]
NoTag == TagOf(<< >>, << >>, << >>, << >>)

\* a reflect.StructField
FDT(name, type, exported, embedded, tag) ==
    [Name |-> name, Type |-> type, Exported |-> exported, Embedded |-> embedded,
     Tag |-> tag]
FD(name, type, exported, embedded) == FDT(name, type, exported, embedded, NoTag)

\* the declared fields of each struct type, in declaration order
StructFields(t) ==
    CASE t = "ReflectStruct" ->
            << FD("StringField", "string", TRUE, FALSE),
               FD("unexportedField", "int", FALSE, FALSE),
               FD("ExportedPointer", "*int", TRUE, FALSE),
               FD("NestedReflectField", "struct{NestedStringField}", TRUE, FALSE),
               FD("EmbedReflect", "EmbedReflect", TRUE, TRUE),
               FD("unexportedStruct", "reflectNestedStruct", FALSE, FALSE) >>
      [] t = "struct{NestedStringField}" ->
            << FD("NestedStringField", "string", TRUE, FALSE) >>
      [] t = "EmbedReflect" ->
            << FD("EmbedStringField", "string", TRUE, FALSE) >>
      [] t = "reflectNestedStruct" ->
            << FD("AnotherField", "int", TRUE, FALSE) >>
      [] t = "Tree" ->
            << FD("A", "Branch", TRUE, FALSE),
               FD("B", "string", TRUE, FALSE),
               FD("Net", "net.IPNet", TRUE, FALSE),
               FD("hidden", "leafHolder", FALSE, FALSE),
               FD("Q", "*Branch", TRUE, FALSE),
               FD("mixin", "mixin", FALSE, TRUE) >>
      [] t = "Branch" ->
            << FD("X", "Twig", TRUE, FALSE),
               FD("Y", "int8", TRUE, FALSE),
               FD("z", "string", FALSE, FALSE) >>
      [] t = "Twig" ->
            << FD("Z", "string", TRUE, FALSE) >>
      [] t = "leafHolder" ->
            << FD("V", "string", TRUE, FALSE) >>
      [] t = "mixin" ->
            << FD("Pub", "string", TRUE, FALSE) >>
      [] t = "net.IPNet" ->
            << FD("IP", "net.IP", TRUE, FALSE),
               FD("Mask", "net.IPMask", TRUE, FALSE) >>
      \* records loaded by New(...).Load
      [] t = "Service" ->
            << FDT("Name", "string", TRUE, FALSE,
                   TagOf(<<"a", "b">>, <<"N">>, <<"n">>, <<"t", "r", "u", "e">>)),
               FDT("Port", "int", TRUE, FALSE,
                   TagOf(<<"4", "2">>, <<"P">>, <<"p">>, << >>)),
               FDT("Wait", "time.Duration", TRUE, FALSE,
                   TagOf(<<"5", "s">>, <<"W">>, << >>, << >>)),
               FDT("DB", "Database", TRUE, FALSE,
                   TagOf(<< >>, <<"D">>, << >>, << >>)),
               FDT("Tags", "[]int8", TRUE, FALSE,
                   TagOf(<<"1", ",", "2", ",", ",">>, <<"G">>, << >>, << >>)),
               FDT("Token", "string", TRUE, FALSE,
                   TagOf(<< >>, <<"T">>, << >>, <<"t", "r", "u", "e">>)) >>
      [] t = "Database" ->
            << FDT("Host", "string", TRUE, FALSE,
                   TagOf(<<"h">>, <<"H">>, <<"d">>, <<"t", "r", "u", "e">>)) >>
      [] t = "Strict" ->
            << FDT("Name", "string", TRUE, FALSE,
                   TagOf(<<"a", "b">>, <<"N">>, <<"n">>, << >>)),
               FDT("Level", "int8", TRUE, FALSE,
                   TagOf(<<"3", "0", "0">>, <<"L">>, << >>, << >>)),
               FDT("Port", "int", TRUE, FALSE,
                   TagOf(<<"4", "2">>, <<"P">>, <<"p">>, << >>)) >>
      [] t = "Sealed" ->
            << FDT("Name", "string", TRUE, FALSE,
                   TagOf(<<"a", "b">>, <<"N">>, <<"n">>, << >>)),
               FDT("secret", "string", FALSE, FALSE,
                   TagOf(<<"s">>, << >>, << >>, << >>)) >>
      \* records of TestValidateRequiredFields
      [] t = "User" ->
            << FDT("Name", "string", TRUE, FALSE,
                   TagOf(<< >>, << >>, << >>, <<"t", "r", "u", "e">>)),
               FDT("Email", "string", TRUE, FALSE,
                   TagOf(<< >>, << >>, << >>, <<"t", "r", "u", "e">>)),
               FDT("Age", "int", TRUE, FALSE,
                   TagOf(<< >>, << >>, << >>, <<"f", "a", "l", "s", "e">>)),
               FD("Address", "Address", TRUE, FALSE),
               FDT("IP", "net.IP", TRUE, FALSE,
                   TagOf(<< >>, << >>, << >>, <<"t", "r", "u", "e">>)) >>
      [] t = "Address" ->
            << FDT("City", "string", TRUE, FALSE,
                   TagOf(<< >>, << >>, << >>, <<"t", "r", "u", "e">>)),
               FDT("Country", "string", TRUE, FALSE,
                   TagOf(<< >>, << >>, << >>, <<"t", "r", "u", "e">>)) >>
      [] t = "NestedAnonymous" ->
            << FDT("Field1", "string", TRUE, FALSE,
                   TagOf(<< >>, << >>, << >>, <<"t", "r", "u", "e">>)),
               FDT("Anonymous", "struct{Field2}", TRUE, FALSE,
                   TagOf(<< >>, << >>, << >>, <<"t", "r", "u", "e">>)) >>
      [] t = "struct{Field2}" ->
            << FDT("Field2", "string", TRUE, FALSE,
                   TagOf(<< >>, << >>, << >>, <<"t", "r", "u", "e">>)) >>
      \* a record with the remaining cases of the required annotation
      [] t = "Account" ->
            << FDT("ID", "string", TRUE, FALSE,
                   TagOf(<< >>, << >>, << >>, <<"t", "r", "u", "e">>)),
               FDT("secret", "string", FALSE, FALSE,
                   TagOf(<< >>, << >>, << >>, <<"t", "r", "u", "e">>)),
               FDT("Profile", "Profile", TRUE, FALSE,
                   TagOf(<< >>, << >>, << >>, <<"t", "r", "u", "e">>)),
               FDT("hidden", "Address", FALSE, FALSE,
                   TagOf(<< >>, << >>, << >>, <<"t", "r", "u", "e">>)),
               FDT("Note", "string", TRUE, FALSE,
                   TagOf(<< >>, << >>, << >>, <<"-">>)),
               FDT("Owner", "*Profile", TRUE, FALSE,
                   TagOf(<< >>, << >>, << >>, <<"t", "r", "u", "e">>)) >>
      [] t = "Profile" ->
            << FDT("Nick", "string", TRUE, FALSE,
                   TagOf(<< >>, << >>, << >>, <<"t", "r", "u", "e">>)),
               FD("Bio", "string", TRUE, FALSE) >>
      \* a record of the composite and special kinds SetDefaults fills
      [] t = "Limits" ->
            << FDT("Inner", "struct{Tail}", TRUE, FALSE, NoTag),
               FDT("Mask", "net.IPMask", TRUE, FALSE,
                   TagOf(<<"/", "2", "4">>, << >>, << >>, << >>)),
               FDT("Pair", "[2]int8", TRUE, FALSE,
                   TagOf(<<",", "5">>, << >>, << >>, << >>)),
               FDT("Codes", "map[string]int8", TRUE, FALSE,
                   TagOf(<<"a", ":", "1", ",", "b">>, << >>, << >>, << >>)),
               FDT("Level", "uint8", TRUE, FALSE,
                   TagOf(<<"2", "5", "6">>, << >>, << >>, << >>)),
               FDT("After", "string", TRUE, FALSE,
                   TagOf(<<"z">>, << >>, << >>, << >>)) >>
      [] t = "struct{Tail}" ->
            << FDT("Tail", "string", TRUE, FALSE,
                   TagOf(<<"t">>, << >>, << >>, << >>)) >>
      \* a record like NestedStruct of TestSetDefaults, with a field after the
      \* one whose type has UnmarshalText
      [] t = "Marked" ->
            << FDT("NestedStringField", "string", TRUE, FALSE,
                   TagOf(<<"n">>, << >>, << >>, << >>)),
               FDT("TextUnmarshalField", "custom", TRUE, FALSE,
                   TagOf(<<"u">>, << >>, << >>, << >>)),
               FDT("After", "string", TRUE, FALSE,
                   TagOf(<<"z">>, << >>, << >>, << >>)) >>
      [] t = "custom" ->
            << FD("inner", "string", FALSE, FALSE) >>
      [] OTHER -> << >>

NoField == FD("", "", FALSE, FALSE)

-----------------------------------------------------------------------------
(* reflect.Value as far as the walker observes it: the type, the place     *)
(* inside the root record and the flag bits that decide CanAddr, CanSet    *)
(* and CanInterface.                                                       *)

\* a value computed once and used under a name: F applied to x
With(x, F(_)) == F(x)

RV(type, path, addr, sticky, embedRO) ==
    [Type |-> type, Path |-> path, flagAddr |-> addr,
     flagStickyRO |-> sticky, flagEmbedRO |-> embedRO]

Kind(v) == KindOf(v.Type)
NumField(v) == Len(StructFields(v.Type))
CanAddr(v) == v.flagAddr
CanInterface(v) == ~(v.flagStickyRO \/ v.flagEmbedRO)
CanSet(v) == v.flagAddr /\ ~(v.flagStickyRO \/ v.flagEmbedRO)

\* reflect.Value.Field(n): the sticky read-only bit and addressability are
\* inherited; an unexported field is read-only (embedded: not inherited).
Field(v, n) ==
    With(StructFields(v.Type)[n],
         LAMBDA fd :
            RV(fd.Type, Append(v.Path, n), v.flagAddr,
               v.flagStickyRO \/ (~fd.Exported /\ ~fd.Embedded),
               ~fd.Exported /\ fd.Embedded))

\* reflect.ValueOf(in).Elem() of a pointer to a struct
RootValue(in) == RV(in.ElemType, << >>, TRUE, FALSE, FALSE)

-----------------------------------------------------------------------------
(* ReflectOptions                                                          *)

TriState == {"unset", "true", "false"}

Matches(filter, b) ==
    \/ filter = "unset"
    \/ filter = "true" /\ b
    \/ filter = "false" /\ ~b

IsValid(o, v) ==
    IF ~Matches(o.CanSet, CanSet(v)) THEN FALSE
    ELSE IF ~Matches(o.CanAddr, CanAddr(v)) THEN FALSE
    ELSE IF ~Matches(o.CanInterface, CanInterface(v)) THEN FALSE
    ELSE TRUE

IsFieldYieldsStructs(o, v) == TRUE

IsField(o, v) ==
    IF v.Type \in o.AsField THEN TRUE
    ELSE IF Kind(v) = "struct" THEN FALSE
    ELSE TRUE

-----------------------------------------------------------------------------
(* ReflectFieldsOf                                                         *)

\* the values handed to ReflectFieldsOf as `in`
PointerTo(t) == [Kind |-> "ptr", ElemKind |-> "struct", ElemType |-> t]
MalformedRoots ==
    { [Kind |-> "struct",  ElemKind |-> "invalid", ElemType |-> "ReflectStruct"],
      [Kind |-> "invalid", ElemKind |-> "invalid", ElemType |-> ""],
      [Kind |-> "int",     ElemKind |-> "invalid", ElemType |-> ""],
      [Kind |-> "ptr",     ElemKind |-> "int",     ElemType |-> "int"],
      [Kind |-> "ptr",     ElemKind |-> "invalid", ElemType |-> "Tree"],
      [Kind |-> "ptr",     ElemKind |-> "ptr",     ElemType |-> "*Branch"] }
WalkRoots == {PointerTo("ReflectStruct"), PointerTo("Tree")} \cup MalformedRoots

WalkOptions ==
    [CanAddr : TriState, CanSet : TriState, CanInterface : TriState,
     AsField : SUBSET {"net.IPNet", "Twig"}]

\* a *ReflectValue; Owner is the position of the owning frame in structs,
\* 0 for the nil Owner of the root frame
ReflectValue(value, field, owner) ==
    [Value |-> value, Field |-> field, Owner |-> owner]

RootErrorSwapped(in) ==
    IF in.Kind # "ptr" THEN "ErrExpectStruct"
    ELSE IF in.ElemKind # "struct" THEN "ErrExpectPointer"
    ELSE "nil"

\* the two root checks, in the order the code makes them
RootError(in) ==
    IF in.Kind # "ptr" THEN "ErrExpectPointer"
    ELSE IF in.ElemKind # "struct" THEN "ErrExpectStruct"
    ELSE "nil"

FieldStepDescendsFirst(o, fv) ==
    IF ~IsField(o, fv) THEN "frame"
    ELSE IF ~IsValid(o, fv) THEN "skip"
    ELSE "yield"

\* what the loop body does with one field
FieldStep(o, fv) ==
    IF ~IsValid(o, fv) THEN "skip"
    ELSE IF ~IsField(o, fv) THEN "frame"
    ELSE "yield"

QueueFrameDepthFirst(frames, at, frame) ==
    SubSeq(frames, 1, at) \o <<frame>> \o SubSeq(frames, at + 1, Len(frames))

\* structs = append(structs, frame)
QueueFrame(frames, at, frame) == Append(frames, frame)

\* an error value: the message, the field or parser it names, its cause and,
\* for the required-field report, the missing fields; nil has msg "nil"
Err(msg, field, cause, missing) ==
    [msg |-> msg, field |-> field, cause |-> cause, missing |-> missing]
NoError == Err("nil", "", "nil", << >>)

\* the parser types of the built-in sources
ParserDefaults == "defaults"
ParserEnv == "env"
ParserFlags == "flags"

\* Load is not running
LoadIdle ==
    /\ target = [Kind |-> "invalid", ElemKind |-> "invalid", ElemType |-> ""]
    /\ dest = << >>
    /\ config = [SkipDefaults |-> FALSE, SkipEnv |-> FALSE, SkipFlags |-> FALSE,
                 EnvPrefix |-> << >>, LoaderOrder |-> << >>,
                 Envs |-> << >>, Args |-> << >>]
    /\ svc = [Config |-> config, groups |-> << >>]
    /\ ord = 1
    /\ lpc = "done"
    /\ lerr = NoError

\* no single field is being coerced
CoerceIdle ==
    /\ cfield = ""
    /\ cvalue = << >>
    /\ cslot = << >>
    /\ cerr = "nil"
    /\ cpc = "done"

\* ParseTagOptions is not running
TagIdle ==
    /\ ptag = NoTag
    /\ popt = << >>
    /\ ppc = "done"

\* New was given no options and Load has called nothing
OptionsIdle ==
    /\ lopts = << >>
    /\ lopt = 1
    /\ lcalls = << >>

\* PrepareEnvs is not running
EnvIdle ==
    /\ envs = << >>
    /\ prefix = << >>
    /\ out = << >>
    /\ e = 1
    /\ epc = "done"

WalkInit ==
    /\ input \in WalkRoots
    /\ options \in WalkOptions
    /\ structs = << >>
    /\ j = 1
    /\ i = 1
    /\ pairs = << >>
    /\ wpc = "start"
    /\ stopped = FALSE
    /\ EnvIdle
    /\ LoadIdle
    /\ CoerceIdle
    /\ TagIdle
    /\ OptionsIdle

\* the root is malformed: one error pair is yielded and the iterator returns,
\* whatever the consumer answers
WalkRootError ==
    /\ wpc = "start"
    /\ RootError(input) # "nil"
    /\ pairs' = Append(pairs, [node |-> << >>, err |-> RootError(input)])
    /\ \E more \in BOOLEAN : stopped' = ~more
    /\ wpc' = "done"
    /\ UNCHANGED <<input, options, structs, j, i>>
    /\ UNCHANGED notWalk

WalkStart ==
    /\ wpc = "start"
    /\ RootError(input) = "nil"
    /\ structs' = << ReflectValue(RootValue(input), NoField, 0) >>
    /\ j' = 1
    /\ i' = 1
    /\ wpc' = "loop"
    /\ UNCHANGED <<input, options, pairs, stopped>>
    /\ UNCHANGED notWalk

InFrame == wpc = "loop" /\ j <= Len(structs) /\ i <= NumField(structs[j].Value)

CurrentField == Field(structs[j].Value, i)
CurrentNode ==
    ReflectValue(CurrentField, StructFields(structs[j].Value.Type)[i], j)

WalkSkip ==
    /\ InFrame
    /\ FieldStep(options, CurrentField) = "skip"
    /\ i' = i + 1
    /\ UNCHANGED <<input, options, structs, j, pairs, wpc, stopped>>
    /\ UNCHANGED notWalk

WalkDescend ==
    /\ InFrame
    /\ FieldStep(options, CurrentField) = "frame"
    /\ structs' = QueueFrame(structs, j, CurrentNode)
    /\ i' = i + 1
    /\ UNCHANGED <<input, options, j, pairs, wpc, stopped>>
    /\ UNCHANGED notWalk

\* yield returned true: the loop goes on
WalkYield ==
    /\ InFrame
    /\ FieldStep(options, CurrentField) = "yield"
    /\ pairs' = Append(pairs, [node |-> <<CurrentNode>>, err |-> "nil"])
    /\ i' = i + 1
    /\ UNCHANGED <<input, options, structs, j, wpc, stopped>>
    /\ UNCHANGED notWalk

\* yield returned false and the loop went on to the next field all the same
WalkYieldStopContinues ==
    /\ InFrame
    /\ FieldStep(options, CurrentField) = "yield"
    /\ pairs' = Append(pairs, [node |-> <<CurrentNode>>, err |-> "nil"])
    /\ stopped' = TRUE
    /\ i' = i + 1
    /\ UNCHANGED <<input, options, structs, j, wpc>>
    /\ UNCHANGED notWalk

\* yield returned false: break loop
WalkYieldStop ==
    /\ InFrame
    /\ FieldStep(options, CurrentField) = "yield"
    /\ pairs' = Append(pairs, [node |-> <<CurrentNode>>, err |-> "nil"])
    /\ stopped' = TRUE
    /\ wpc' = "done"
    /\ UNCHANGED <<input, options, structs, j, i>>
    /\ UNCHANGED notWalk

WalkNextFrame ==
    /\ wpc = "loop"
    /\ j <= Len(structs)
    /\ i > NumField(structs[j].Value)
    /\ j' = j + 1
    /\ i' = 1
    /\ UNCHANGED <<input, options, structs, pairs, wpc, stopped>>
    /\ UNCHANGED notWalk

WalkReturn ==
    /\ wpc = "loop"
    /\ j > Len(structs)
    /\ wpc' = "done"
    /\ UNCHANGED <<input, options, structs, j, i, pairs, stopped>>
    /\ UNCHANGED notWalk

WalkNext ==
    \/ WalkRootError
    \/ WalkStart
    \/ WalkSkip
    \/ WalkDescend
    \/ WalkYield
    \/ WalkYieldStop
    \/ WalkNextFrame
    \/ WalkReturn

SpecWalk == WalkInit /\ [][WalkNext]_vars

-----------------------------------------------------------------------------
(* Properties of ReflectFieldsOf                                           *)

\* the yielded field nodes, in order (error pairs carry no node)
RECURSIVE NodesOf(_)
NodesOf(ps) ==
    IF ps = << >> THEN << >>
    ELSE (IF Head(ps).node = << >> THEN << >> ELSE Head(ps).node)
         \o NodesOf(Tail(ps))

Yielded == NodesOf(pairs)

\* every place (sequence of field indexes) inside a value of struct type t
RECURSIVE PlacesIn(_)
PlacesIn(t) ==
    UNION { {<<n>>} \cup
            (IF KindOf(StructFields(t)[n].Type) = "struct"
             THEN { <<n>> \o q : q \in PlacesIn(StructFields(t)[n].Type) }
             ELSE {})
          : n \in 1..Len(StructFields(t)) }

\* the reflect.Value found at a place of the root record
RECURSIVE ValueAt(_, _)
ValueAt(root, p) ==
    IF p = << >> THEN root
    ELSE Field(ValueAt(root, SubSeq(p, 1, Len(p) - 1)), p[Len(p)])

Prefix(p, n) == SubSeq(p, 1, n)

\* p comes before q: shallower first, then by declaration order along the path
Before(p, q) ==
    \/ Len(p) < Len(q)
    \/ /\ Len(p) = Len(q)
       /\ \E n \in 1..Len(p) :
            /\ p[n] < q[n]
            /\ \A m \in 1..(n - 1) : p[m] = q[m]

WellFormedRoot == input.Kind = "ptr" /\ input.ElemKind = "struct"
Completed == wpc = "done" /\ ~stopped

\* C7: a root that is not a pointer yields exactly one pair, a nil node with
\* ErrExpectPointer; a pointer that does not resolve to a struct (a nil struct
\* pointer included) yields exactly one pair with ErrExpectStruct; no field
\* node is yielded and no frame is queued in either case.
C7_MalformedRootOneError ==
    LET want == IF input.Kind # "ptr" THEN "ErrExpectPointer" ELSE "ErrExpectStruct"
    IN  ~WellFormedRoot =>
            /\ structs = << >>
            /\ Yielded = << >>
            /\ wpc \in {"start", "done"}
            /\ (wpc = "start" => pairs = << >>)
            /\ (wpc = "done" => pairs = << [node |-> << >>, err |-> want] >>)

C7_Witness ==
    /\ wpc = "done"
    /\ input.Kind = "ptr" /\ input.ElemKind = "invalid"
    /\ pairs = << [node |-> << >>, err |-> "ErrExpectStruct"] >>

\* C8: every yielded node is of a non-struct kind or of a type in AsField;
\* every queued frame other than the root is a struct whose type is not in
\* AsField (so it is never yielded); a pointer-typed field is never a frame.
C8_NoCompositeYielded ==
    /\ \A k \in 1..Len(Yielded) :
          \/ Kind(Yielded[k].Value) # "struct"
          \/ Yielded[k].Value.Type \in options.AsField
    /\ \A k \in 2..Len(structs) :
          /\ Kind(structs[k].Value) = "struct"
          /\ structs[k].Value.Type \notin options.AsField
          /\ \A n \in 1..Len(Yielded) : Yielded[n].Value.Path # structs[k].Value.Path
    /\ \A k \in 1..Len(structs) :
          \A n \in 1..Len(structs[k].Value.Path) :
              Kind(ValueAt(RootValue(input), Prefix(structs[k].Value.Path, n))) # "ptr"

C8_Witness ==
    /\ Completed
    /\ Len(structs) >= 2
    /\ \E k \in 1..Len(Yielded) : Yielded[k].Value.Type = "net.IPNet"
    /\ \E k \in 1..Len(Yielded) : Yielded[k].Value.Type = "*Branch"
    /\ \E k \in 1..Len(Yielded) : Yielded[k].Value.Type = "Twig"

ChainPasses(p) ==
    \A n \in 1..Len(p) : IsValid(options, ValueAt(RootValue(input), Prefix(p, n)))

\* p is a leaf the walker can reach: a field that counts as a field, below
\* records that do not
LeafPlace(p) ==
    /\ IsField(options, ValueAt(RootValue(input), p))
    /\ \A n \in 1..(Len(p) - 1) :
          ~IsField(options, ValueAt(RootValue(input), Prefix(p, n)))

\* C9: a field is yielded only if it and every enclosing record field pass
\* all set filters; no field is yielded twice; and once an uninterrupted
\* traversal has finished, every leaf whose whole chain passes was yielded.
C9_FilteredChains ==
    /\ \A k \in 1..Len(Yielded) : ChainPasses(Yielded[k].Value.Path)
    /\ \A k, n \in 1..Len(Yielded) :
          Yielded[k].Value.Path = Yielded[n].Value.Path => k = n
    /\ (Completed /\ WellFormedRoot) =>
          \A p \in PlacesIn(input.ElemType) :
              (ChainPasses(p) /\ LeafPlace(p)) =>
                  \E k \in 1..Len(Yielded) : Yielded[k].Value.Path = p

\* the embedded unexported record fails CanSet, its exported field would pass
\* on its own, and the finished traversal did not yield it
C9_Witness ==
    /\ Completed
    /\ input = PointerTo("Tree")
    /\ options.CanSet = "true"
    /\ Len(Yielded) >= 3
    /\ IsValid(options, ValueAt(RootValue(input), <<6, 1>>))
    /\ ~IsValid(options, ValueAt(RootValue(input), <<6>>))
    /\ \A k \in 1..Len(Yielded) : Yielded[k].Value.Path # <<6, 1>>

\* C10: breadth-first order: frames are queued and visited shallower first
\* and in declaration order, and so are the yielded leaves: a leaf at depth d
\* comes before every leaf at depth d+1, leaves of an earlier frame before
\* leaves of a later one, fields of one record in declaration order.
C10_BreadthFirst ==
    /\ \A k, n \in 1..Len(Yielded) :
          k < n => Before(Yielded[k].Value.Path, Yielded[n].Value.Path)
    /\ \A k, n \in 1..Len(structs) :
          k < n => Before(structs[k].Value.Path, structs[n].Value.Path)
    /\ \A k \in 1..Len(Yielded) :
          /\ Yielded[k].Owner \in 1..Len(structs)
          /\ Yielded[k].Owner <= j
          /\ Yielded[k].Value.Path =
                Append(structs[Yielded[k].Owner].Value.Path,
                       Yielded[k].Value.Path[Len(Yielded[k].Value.Path)])

C10_Witness ==
    /\ Completed
    /\ input = PointerTo("Tree")
    /\ Len(Yielded) = 9
    /\ Len(Yielded[1].Value.Path) = 1
    /\ Len(Yielded[8].Value.Path) = 2
    /\ Len(Yielded[9].Value.Path) = 3

\* the counts the repository's TestReflectFieldsOf expects of ReflectStruct
TestCountsHold ==
    (Completed /\ input = PointerTo("ReflectStruct") /\ options.AsField = {}) =>
        /\ (options = [CanAddr |-> "unset", CanSet |-> "true", CanInterface |-> "unset", AsField |-> {}]
                => Len(Yielded) = 4)
        /\ (options = [CanAddr |-> "true", CanSet |-> "unset", CanInterface |-> "unset", AsField |-> {}]
                => Len(Yielded) = 6)
        /\ (options = [CanAddr |-> "unset", CanSet |-> "unset", CanInterface |-> "true", AsField |-> {}]
                => Len(Yielded) = 4)
        /\ (options = [CanAddr |-> "false", CanSet |-> "true", CanInterface |-> "unset", AsField |-> {}]
                => Len(Yielded) = 0)
        /\ (options = [CanAddr |-> "unset", CanSet |-> "true", CanInterface |-> "false", AsField |-> {}]
                => Len(Yielded) = 0)

-----------------------------------------------------------------------------
(* Text helpers: Go's strings package on texts                             *)

\* strings.HasPrefix
HasPrefix(s, p) == Len(p) <= Len(s) /\ SubSeq(s, 1, Len(p)) = p

\* strings.TrimPrefix
TrimPrefix(s, p) == IF HasPrefix(s, p) THEN SubSeq(s, Len(p) + 1, Len(s)) ELSE s

\* position of the first c in s, 0 when there is none
IndexOf(s, c) ==
    IF \E k \in 1..Len(s) : s[k] = c
    THEN CHOOSE k \in 1..Len(s) : s[k] = c /\ \A m \in 1..(k - 1) : s[m] # c
    ELSE 0

\* strings.Split(s, c) for a one-character separator
RECURSIVE Split(_, _)
Split(s, c) ==
    IF IndexOf(s, c) = 0 THEN <<s>>
    ELSE <<SubSeq(s, 1, IndexOf(s, c) - 1)>>
         \o Split(SubSeq(s, IndexOf(s, c) + 1, Len(s)), c)

\* strings.SplitN(s, c, 2)
SplitN2(s, c) ==
    IF IndexOf(s, c) = 0 THEN <<s>>
    ELSE << SubSeq(s, 1, IndexOf(s, c) - 1), SubSeq(s, IndexOf(s, c) + 1, Len(s)) >>

\* strings.Join(parts, c)
RECURSIVE Join(_, _)
Join(parts, c) ==
    IF parts = << >> THEN << >>
    ELSE IF Len(parts) = 1 THEN parts[1]
    ELSE parts[1] \o <<c>> \o Join(Tail(parts), c)

-----------------------------------------------------------------------------
(* PrepareEnvs and insertIntoMap                                           *)

envPairDelim == "="
envDelimiter == "_"

\* a map[string]interface{} value: a function from key to entry, an entry
\* being a text (IsMap = FALSE) or a nested map (IsMap = TRUE)
EmptyMap == << >>
LeafEntry(value) == [IsMap |-> FALSE, Val |-> value, Map |-> EmptyMap]
MapEntry(m) == [IsMap |-> TRUE, Val |-> << >>, Map |-> m]

\* m[key] = entry
Put(m, key, entry) ==
    [k \in DOMAIN m \cup {key} |-> IF k = key THEN entry ELSE m[k]]

\* insertIntoMap storing the value under the full joined name only
insertIntoMapFullNameOnly(m, keys, value) ==
    Put(m, Join(keys, envDelimiter), LeafEntry(value))

RECURSIVE insertIntoMapNestedOnly(_, _, _)
insertIntoMapNestedOnly(m, keys, value) ==
    IF Len(keys) = 1 THEN Put(m, keys[1], LeafEntry(value))
    ELSE LET m2 == IF keys[1] \in DOMAIN m THEN m
                   ELSE Put(m, keys[1], MapEntry(EmptyMap))
         IN  IF m2[keys[1]].IsMap
             THEN Put(m2, keys[1],
                      MapEntry(insertIntoMapNestedOnly(m2[keys[1]].Map, Tail(keys), value)))
             ELSE m2

\* insertIntoMap leaving a nested map alone when the last key names one
RECURSIVE insertIntoMapKeepsSubtree(_, _, _)
insertIntoMapKeepsSubtree(m, keys, value) ==
    IF Len(keys) = 1
    THEN (IF keys[1] \in DOMAIN m /\ m[keys[1]].IsMap THEN m
          ELSE Put(m, keys[1], LeafEntry(value)))
    ELSE LET m1 == Put(m, Join(keys, envDelimiter), LeafEntry(value))
             m2 == IF keys[1] \in DOMAIN m1 THEN m1
                   ELSE Put(m1, keys[1], MapEntry(EmptyMap))
         IN  IF m2[keys[1]].IsMap
             THEN Put(m2, keys[1],
                      MapEntry(insertIntoMapKeepsSubtree(m2[keys[1]].Map, Tail(keys),
                                                         value)))
             ELSE m2

RECURSIVE insertIntoMap(_, _, _)
insertIntoMap(m, keys, value) ==
    IF Len(keys) = 1 THEN Put(m, keys[1], LeafEntry(value))
    ELSE LET m1 == Put(m, Join(keys, envDelimiter), LeafEntry(value))
             m2 == IF keys[1] \in DOMAIN m1 THEN m1
                   ELSE Put(m1, keys[1], MapEntry(EmptyMap))
         IN  IF m2[keys[1]].IsMap
             THEN Put(m2, keys[1],
                      MapEntry(insertIntoMap(m2[keys[1]].Map, Tail(keys), value)))
             ELSE m2

\* the loop body of PrepareEnvs up to the insertion
PrefixMismatch(env, pfx) == pfx # << >> /\ ~HasPrefix(env, pfx)

TrimmedAlways(env, pfx) ==
    IF pfx # << >> /\ HasPrefix(env, pfx)
    THEN TrimPrefix(SubSeq(env, Len(pfx) + 1, Len(env)), <<envDelimiter>>)
    ELSE env

Trimmed(env, pfx) ==
    IF pfx # << >> THEN TrimPrefix(env, pfx \o <<envDelimiter>>) ELSE env

EnvParts(env, pfx) == SplitN2(Trimmed(env, pfx), envPairDelim)
EnvKeys(env, pfx) == Split(EnvParts(env, pfx)[1], envDelimiter)

\* the entry is dropped by one of the two `continue`s
Discarded(env, pfx) == PrefixMismatch(env, pfx) \/ Len(EnvParts(env, pfx)) # 2

\* one iteration of the range loop
PrepareEnvsBody(m, env, pfx) ==
    IF Discarded(env, pfx) THEN m
    ELSE insertIntoMap(m, EnvKeys(env, pfx), EnvParts(env, pfx)[2])

\* the whole call
RECURSIVE PrepareEnvsFrom(_, _, _)
PrepareEnvsFrom(m, list, pfx) ==
    IF list = << >> THEN m
    ELSE PrepareEnvsFrom(PrepareEnvsBody(m, Head(list), pfx), Tail(list), pfx)

PrepareEnvs(list, pfx) == PrepareEnvsFrom(EmptyMap, list, pfx)

\* the entries and prefixes the model feeds to PrepareEnvs
MaxEnvs == 3

EnvPool ==
    { <<"A", "=", "1">>,
      <<"A", "_", "B", "=", "2">>,
      <<"A", "_", "B", "=", "3">>,
      <<"A", "_", "B", "_", "C", "=", "4">>,
      <<"B">>,
      <<"P", "_", "A", "=", "5">>,
      <<"P", "A", "_", "B", "=", "6">>,
      <<"Q", "_", "A", "=", "7">>,
      <<"P", "_", "A", "_", "B", "=", "8">>,
      <<"P", "=", "9">>,
      <<"A", "_", "_", "B", "=", "0">> }

EnvPrefixes == { << >>, <<"P">> }

EnvLists == UNION { [1..n -> EnvPool] : n \in 0..MaxEnvs }

\* ReflectFieldsOf is not running
WalkIdle ==
    /\ input = [Kind |-> "invalid", ElemKind |-> "invalid", ElemType |-> ""]
    /\ options = [CanAddr |-> "unset", CanSet |-> "unset",
                  CanInterface |-> "unset", AsField |-> {}]
    /\ structs = << >>
    /\ j = 1
    /\ i = 1
    /\ pairs = << >>
    /\ wpc = "done"
    /\ stopped = FALSE

EnvInit ==
    /\ envs \in EnvLists
    /\ prefix \in EnvPrefixes
    /\ out = EmptyMap
    /\ e = 1
    /\ epc = "loop"
    /\ WalkIdle
    /\ LoadIdle
    /\ CoerceIdle
    /\ TagIdle
    /\ OptionsIdle

\* if prefix != "" && !strings.HasPrefix(env, prefix) { continue }
PrepareEnvsSkipPrefix ==
    /\ epc = "loop"
    /\ e <= Len(envs)
    /\ PrefixMismatch(envs[e], prefix)
    /\ e' = e + 1
    /\ UNCHANGED <<envs, prefix, out, epc>>
    /\ UNCHANGED notEnv

\* if len(parts) != 2 { continue }
PrepareEnvsSkipNoPair ==
    /\ epc = "loop"
    /\ e <= Len(envs)
    /\ ~PrefixMismatch(envs[e], prefix)
    /\ Len(EnvParts(envs[e], prefix)) # 2
    /\ e' = e + 1
    /\ UNCHANGED <<envs, prefix, out, epc>>
    /\ UNCHANGED notEnv

PrepareEnvsInsert ==
    /\ epc = "loop"
    /\ e <= Len(envs)
    /\ ~Discarded(envs[e], prefix)
    /\ out' = PrepareEnvsBody(out, envs[e], prefix)
    /\ e' = e + 1
    /\ UNCHANGED <<envs, prefix, epc>>
    /\ UNCHANGED notEnv

PrepareEnvsReturn ==
    /\ epc = "loop"
    /\ e > Len(envs)
    /\ epc' = "done"
    /\ UNCHANGED <<envs, prefix, out, e>>
    /\ UNCHANGED notEnv

EnvNext ==
    \/ PrepareEnvsSkipPrefix
    \/ PrepareEnvsSkipNoPair
    \/ PrepareEnvsInsert
    \/ PrepareEnvsReturn

SpecEnv == EnvInit /\ [][EnvNext]_vars

-----------------------------------------------------------------------------
(* Properties of PrepareEnvs                                               *)

\* the text found by following a path of keys through nested maps: a
\* one-element sequence, or empty when the path does not lead to a text
RECURSIVE Resolve(_, _)
Resolve(m, path) ==
    IF path = << >> \/ Head(path) \notin DOMAIN m THEN << >>
    ELSE IF Len(path) = 1
         THEN (IF m[Head(path)].IsMap THEN << >> ELSE << m[Head(path)].Val >>)
         ELSE (IF m[Head(path)].IsMap
               THEN Resolve(m[Head(path)].Map, Tail(path))
               ELSE << >>)

\* the entries the loop has accepted so far
AcceptedSoFar == { k \in 1..(e - 1) : ~Discarded(envs[k], prefix) }
KeysOf(k) == EnvKeys(envs[k], prefix)
ValueOf(k) == EnvParts(envs[k], prefix)[2]

\* the value of the last accepted entry that has the same name as entry k
LastValueFor(k) ==
    LET same == { n \in AcceptedSoFar : KeysOf(n) = KeysOf(k) }
        last == CHOOSE n \in same : \A m \in same : m <= n
    IN  ValueOf(last)

ProperPrefixOf(p, q) == Len(p) < Len(q) /\ SubSeq(q, 1, Len(p)) = p

\* C2 as stated: for every accepted entry the tree holds that entry's value
\* at the top level under the full joined name and at the nested path.
C2_BothRoutesForEveryEntry ==
    \A k \in AcceptedSoFar :
        /\ Resolve(out, << Join(KeysOf(k), envDelimiter) >>) = << ValueOf(k) >>
        /\ Resolve(out, KeysOf(k)) = << ValueOf(k) >>

\* C2 amended: for every accepted entry the top-level key with the full
\* joined name holds the value of the last accepted entry of that name; the
\* nested path resolves to the same value provided no accepted entry's name
\* is a segment-wise proper prefix of this one.
C2_BothRoutesUnlessShadowed ==
    \A k \in AcceptedSoFar :
        /\ Resolve(out, << Join(KeysOf(k), envDelimiter) >>) = << LastValueFor(k) >>
        /\ (\A n \in AcceptedSoFar : ~ProperPrefixOf(KeysOf(n), KeysOf(k)))
              => Resolve(out, KeysOf(k)) = << LastValueFor(k) >>

C2_Witness ==
    /\ epc = "done"
    /\ prefix = << >>
    /\ \E k \in AcceptedSoFar :
          /\ KeysOf(k) = << <<"A">>, <<"B">>, <<"C">> >>
          /\ Resolve(out, << <<"A", "_", "B", "_", "C">> >>) = << <<"4">> >>
          /\ Resolve(out, KeysOf(k)) = << <<"4">> >>
    /\ \E k \in AcceptedSoFar : Len(KeysOf(k)) = 2

\* the name of a raw entry: the text before the pair separator
NameOf(env) == SplitN2(env, envPairDelim)[1]

\* the tree the claim describes for a non-empty prefix: every entry with a
\* pair separator whose name starts with the prefix, inserted under its name
\* with the prefix and one following '_' removed
RECURSIVE ClaimedTree(_, _, _)
ClaimedTree(m, list, pfx) ==
    IF list = << >> THEN m
    ELSE LET env == Head(list)
             kept == Len(SplitN2(env, envPairDelim)) = 2 /\ HasPrefix(NameOf(env), pfx)
             name == TrimPrefix(TrimPrefix(NameOf(env), pfx), <<envDelimiter>>)
         IN  ClaimedTree(IF kept
                         THEN insertIntoMap(m, Split(name, envDelimiter),
                                            SplitN2(env, envPairDelim)[2])
                         ELSE m,
                         Tail(list), pfx)

-----------------------------------------------------------------------------
(* Values of the destination record.  A slot is a field that is not       *)
(* itself a walked record; dest maps the place of every slot to the value  *)
(* it holds: a text for a string, an integer for the integer kinds (a      *)
(* time.Duration counts milliseconds), << >> for a nil slice, pointer or   *)
(* interface and a one-element sequence holding the contents otherwise.    *)

\* the struct types the loaders treat as one field (ReflectOptions.AsField)
AsFieldTypes == {"net.IPNet"}

\* the places of the slots of a record of type t
RECURSIVE Slots(_)
Slots(t) ==
    UNION { IF KindOf(StructFields(t)[n].Type) = "struct"
               /\ StructFields(t)[n].Type \notin AsFieldTypes
            THEN { <<n>> \o q : q \in Slots(StructFields(t)[n].Type) }
            ELSE { <<n>> }
          : n \in 1..Len(StructFields(t)) }

\* the reflect.StructField declared at a place of a record of type t
RECURSIVE FieldAt(_, _)
FieldAt(t, p) ==
    IF Len(p) = 1 THEN StructFields(t)[p[1]]
    ELSE FieldAt(StructFields(t)[p[1]].Type, Tail(p))

\* the zero value of a type: 0 for the integers, an array of zero elements,
\* the empty text and nil otherwise
Zero(t) ==
    IF KindOf(t) \in {"int", "uint"} THEN 0
    ELSE IF KindOf(t) = "array" THEN [n \in 1..ArrayLen(t) |-> 0]
    ELSE << >>

\* reflect.Value.IsZero of a slot of type t holding v
IsZero(t, v) == v = Zero(t)

\* a value of type t that is not the zero value
NonZero(t) ==
    CASE KindOf(t) = "string" -> <<"x">>
      [] KindOf(t) \in {"int", "uint"} -> 1
      [] KindOf(t) = "array" -> [n \in 1..ArrayLen(t) |-> IF n = 1 THEN 1 ELSE 0]
      [] OTHER -> << << >> >>

\* a record of type t as `var cfg T` leaves it
ZeroRecord(t) == [p \in Slots(t) |-> Zero(FieldAt(t, p).Type)]

-----------------------------------------------------------------------------
(* strconv.ParseInt and time.ParseDuration on the texts the model uses:    *)
(* digits, a sign, and the unit letters s, m and h.                        *)

DigitChars == <<"0", "1", "2", "3", "4", "5", "6", "7", "8", "9">>
IsDigit(c) == \E n \in 1..Len(DigitChars) : DigitChars[n] = c
DigitVal(c) == (CHOOSE n \in 1..Len(DigitChars) : DigitChars[n] = c) - 1

\* the number written by a text of digits in a base
RECURSIVE Number(_, _)
Number(s, base) ==
    IF s = << >> THEN 0
    ELSE Number(SubSeq(s, 1, Len(s) - 1), base) * base + DigitVal(s[Len(s)])

\* every value fits
InRangeAny(v, bits) == TRUE

\* v fits a signed integer of the given width (widths of 32 bits and more
\* are wider than any number the model writes)
WideBits == 31
InRange(v, bits) ==
    bits > WideBits \/ (v >= -(2 ^ (bits - 1)) /\ v <= 2 ^ (bits - 1) - 1)

\* strconv.ParseInt(s, base, bits) for base 10 and base 0 (where a leading
\* 0 announces an octal number)
ParseInt(s, base, bits) ==
    LET signed == s # << >> /\ s[1] \in {"+", "-"}
        body == IF signed THEN Tail(s) ELSE s
        octal == base = 0 /\ Len(body) > 1 /\ body[1] = "0"
        radix == IF octal THEN 8 ELSE 10
        digits == IF octal THEN Tail(body) ELSE body
        wellFormed == /\ digits # << >>
                      /\ \A n \in 1..Len(digits) :
                            IsDigit(digits[n]) /\ DigitVal(digits[n]) < radix
        val == (IF signed /\ s[1] = "-" THEN -1 ELSE 1) * Number(digits, radix)
    IN  IF ~wellFormed THEN [val |-> 0, err |-> "ErrSyntax"]
        ELSE IF ~InRange(val, bits) THEN [val |-> 0, err |-> "ErrRange"]
        ELSE [val |-> val, err |-> "nil"]

\* v fits an unsigned integer of the given width
InRangeUnsigned(v, bits) == bits > WideBits \/ (v >= 0 /\ v <= 2 ^ bits - 1)

\* strconv.ParseUint(s, 10, bits): digits only, a sign is not permitted
ParseUint(s, base, bits) ==
    LET wellFormed == s # << >> /\ \A n \in 1..Len(s) : IsDigit(s[n])
        val == Number(s, base)
    IN  IF ~wellFormed THEN [val |-> 0, err |-> "ErrSyntax"]
        ELSE IF ~InRangeUnsigned(val, bits) THEN [val |-> 0, err |-> "ErrRange"]
        ELSE [val |-> val, err |-> "nil"]

\* strconv.Atoi(s)
Atoi(s) == ParseInt(s, 10, 64)

\* net.CIDRMask(ones, bits) for the 32-bit masks: nil when ones is not in
\* 0..bits, and else the bytes of the mask, whose i-th byte is 0xff while
\* eight ones or more remain and ^byte(0xff >> n) for the n that remain
CIDRMask(ones, bits) ==
    IF ones < 0 \/ ones > bits THEN << >>
    ELSE << [b \in 1..(bits \div 8) |->
                LET n == ones - 8 * (b - 1)
                IN  IF n >= 8 THEN 255
                    ELSE IF n <= 0 THEN 0
                    ELSE 255 - (255 \div (2 ^ n))] >>

\* how many leading characters of s are digits (digit = TRUE) or are not
RECURSIVE Leading(_, _)
Leading(s, digit) ==
    IF s = << >> \/ IsDigit(s[1]) # digit THEN 0
    ELSE 1 + Leading(Tail(s), digit)

\* the duration units, in milliseconds
UnitMs(u) ==
    CASE u = <<"m", "s">> -> 1
      [] u = <<"s">> -> 1000
      [] u = <<"m">> -> 60000
      [] u = <<"h">> -> 3600000
      [] OTHER -> 0

\* the loop of time.ParseDuration over the groups of digits and unit
RECURSIVE DurationGroups(_, _)
DurationGroups(s, acc) ==
    IF s = << >> THEN [val |-> acc, err |-> "nil"]
    ELSE LET nd == Leading(s, TRUE)
             rest == SubSeq(s, nd + 1, Len(s))
             nu == Leading(rest, FALSE)
             unit == SubSeq(rest, 1, nu)
         IN  IF nd = 0 THEN [val |-> 0, err |-> "invalid duration"]
             ELSE IF nu = 0 THEN [val |-> 0, err |-> "missing unit"]
             ELSE IF UnitMs(unit) = 0 THEN [val |-> 0, err |-> "unknown unit"]
             ELSE DurationGroups(SubSeq(rest, nu + 1, Len(rest)),
                                 acc + Number(SubSeq(s, 1, nd), 10) * UnitMs(unit))

\* time.ParseDuration(s)
ParseDuration(s) ==
    LET signed == s # << >> /\ s[1] \in {"+", "-"}
        body == IF signed THEN Tail(s) ELSE s
        r == DurationGroups(body, 0)
    IN  IF body = <<"0">> THEN [val |-> 0, err |-> "nil"]
        ELSE IF body = << >> THEN [val |-> 0, err |-> "invalid duration"]
        ELSE IF r.err # "nil" THEN r
        ELSE [val |-> (IF signed /\ s[1] = "-" THEN -1 ELSE 1) * r.val, err |-> "nil"]

-----------------------------------------------------------------------------
(* Coercion: setDefaultValue and tryCustomTypes.  Both take the slot's     *)
(* type and current value and the raw text and give the slot's new value   *)
(* and the error.                                                          *)

ErrEnvSetterBreak == "ErrEnvSetterBreak"

\* the items of a split default kept as they are, the empty ones too
AllItems(items) == items

\* the items of a split default that are not empty
RECURSIVE NonEmptyItems(_)
NonEmptyItems(items) ==
    IF items = << >> THEN << >>
    ELSE (IF Head(items) = << >> THEN << >> ELSE << Head(items) >>)
         \o NonEmptyItems(Tail(items))

\* the error of the first element that failed, "nil" if none did
FirstError(elems) ==
    IF \E n \in 1..Len(elems) : elems[n].err # "nil"
    THEN elems[CHOOSE n \in 1..Len(elems) :
                  /\ elems[n].err # "nil"
                  /\ \A m \in 1..(n - 1) : elems[m].err = "nil"].err
    ELSE "nil"

\* array.Len() < len(items) with the segments that are not empty only
ArrayOverflowByFilled(t, items) == ArrayLen(t) < Len(NonEmptyItems(items))

\* array.Len() < len(items)
ArrayOverflow(t, items) == ArrayLen(t) < Len(items)

\* fmt.Errorf("array length exceeds %d elements", field.Len())
ArrayExceeds(t) == "array length exceeds " \o ToString(ArrayLen(t)) \o " elements"

\* a map entry is taken when it has two parts or more
PairAtLeastTwo(pair) == Len(pair) >= 2

\* len(pair) != 2 is what skips a map entry
PairOfTwo(pair) == Len(pair) = 2

\* maper.SetMapIndex(key, val)
SetMapIndex(maper, key, val) ==
    [k \in DOMAIN maper \cup {key} |-> IF k = key THEN val ELSE maper[k]]

\* setDefaultValue without the test of the slot and with a slice case that
\* appends to the slice the slot holds
RECURSIVE setDefaultValueAppends(_, _, _)
setDefaultValueAppends(t, v, value) ==
    IF value = << >> THEN [val |-> v, err |-> "nil"]
    ELSE CASE KindOf(t) = "string" -> [val |-> value, err |-> "nil"]
           [] KindOf(t) = "int" ->
                LET r == ParseInt(value, 10, Bits(t))
                IN  IF r.err # "nil" THEN [val |-> v, err |-> r.err]
                    ELSE [val |-> r.val, err |-> "nil"]
           [] KindOf(t) = "slice" ->
                LET items == NonEmptyItems(Split(value, ","))
                    elems == [n \in 1..Len(items) |->
                                 setDefaultValueAppends(ElemOf(t), Zero(ElemOf(t)), items[n])]
                    held == IF v = << >> THEN << >> ELSE v[1]
                IN  IF FirstError(elems) # "nil"
                    THEN [val |-> v, err |-> FirstError(elems)]
                    ELSE [val |-> << held \o [n \in 1..Len(items) |-> elems[n].val] >>,
                          err |-> "nil"]
           [] OTHER -> [val |-> v, err |-> "unsupported type"]

\* setDefaultValue as it was before the slot's value was consulted: only an
\* empty text leaves the slot alone
RECURSIVE setDefaultValueOverwrites(_, _, _)
setDefaultValueOverwrites(t, v, value) ==
    IF value = << >> THEN [val |-> v, err |-> "nil"]
    ELSE CASE KindOf(t) = "string" -> [val |-> value, err |-> "nil"]
           [] KindOf(t) = "int" ->
                LET r == ParseInt(value, 10, Bits(t))
                IN  IF r.err # "nil" THEN [val |-> v, err |-> r.err]
                    ELSE [val |-> r.val, err |-> "nil"]
           [] KindOf(t) = "slice" ->
                LET items == NonEmptyItems(Split(value, ","))
                    elems == [n \in 1..Len(items) |->
                                 setDefaultValueOverwrites(ElemOf(t), Zero(ElemOf(t)), items[n])]
                IN  IF \E n \in 1..Len(items) : elems[n].err # "nil"
                    THEN [val |-> v,
                          err |-> elems[CHOOSE n \in 1..Len(items) :
                                           /\ elems[n].err # "nil"
                                           /\ \A m \in 1..(n - 1) : elems[m].err = "nil"].err]
                    ELSE [val |-> << [n \in 1..Len(items) |-> elems[n].val] >>,
                          err |-> "nil"]
           [] KindOf(t) = "ptr" ->
                LET r == setDefaultValueOverwrites(ElemOf(t), Zero(ElemOf(t)), value)
                IN  IF r.err # "nil" THEN [val |-> v, err |-> r.err]
                    ELSE [val |-> << r.val >>, err |-> "nil"]
           [] OTHER -> [val |-> v, err |-> "unsupported type"]

\* the elements before the first that failed
ElemsBeforeError(elems) ==
    LET bad == CHOOSE n \in 1..Len(elems) :
                  /\ elems[n].err # "nil"
                  /\ \A m \in 1..(n - 1) : elems[m].err = "nil"
    IN  [n \in 1..(bad - 1) |-> elems[n].val]

\* setDefaultValue storing into the field as it goes: a slice or a pointer
\* that fails on an element keeps what was built before it
RECURSIVE setDefaultValueStoresAsItGoes(_, _, _)
setDefaultValueStoresAsItGoes(t, v, value) ==
    IF value = << >> \/ ~IsZero(t, v) THEN [val |-> v, err |-> "nil"]
    ELSE CASE KindOf(t) = "string" -> [val |-> value, err |-> "nil"]
           [] KindOf(t) = "int" ->
                LET r == ParseInt(value, 10, Bits(t))
                IN  IF r.err # "nil" THEN [val |-> v, err |-> r.err]
                    ELSE [val |-> r.val, err |-> "nil"]
           [] KindOf(t) = "slice" ->
                LET items == NonEmptyItems(Split(value, ","))
                    elems == [n \in 1..Len(items) |->
                                 setDefaultValueStoresAsItGoes(ElemOf(t), Zero(ElemOf(t)),
                                                               items[n])]
                IN  IF FirstError(elems) # "nil"
                    THEN [val |-> << ElemsBeforeError(elems) >>,
                          err |-> FirstError(elems)]
                    ELSE [val |-> << [n \in 1..Len(items) |-> elems[n].val] >>,
                          err |-> "nil"]
           [] KindOf(t) = "ptr" ->
                LET r == setDefaultValueStoresAsItGoes(ElemOf(t), Zero(ElemOf(t)), value)
                IN  [val |-> << r.val >>, err |-> r.err]
           [] OTHER -> [val |-> v, err |-> "unsupported type"]

RECURSIVE setDefaultValue(_, _, _)
RECURSIVE setMapItems(_, _, _)

\* the loop of the map case over the entries, maper being the map so far
setMapItems(t, items, maper) ==
    IF items = << >> THEN [val |-> << maper >>, err |-> "nil"]
    ELSE LET pair == Split(Head(items), ":")
             key == setDefaultValue(KeyOf(t), Zero(KeyOf(t)), pair[1])
             val == setDefaultValue(ElemOf(t), Zero(ElemOf(t)), pair[2])
         IN  IF ~PairOfTwo(pair) THEN setMapItems(t, Tail(items), maper)
             ELSE IF key.err # "nil" THEN [val |-> << >>, err |-> key.err]
             ELSE IF val.err # "nil" THEN [val |-> << >>, err |-> val.err]
             ELSE setMapItems(t, Tail(items), SetMapIndex(maper, key.val, val.val))

\* setDefaultValue(field, value)
setDefaultValue(t, v, value) ==
    IF value = << >> \/ ~IsZero(t, v) THEN [val |-> v, err |-> "nil"]
    ELSE CASE KindOf(t) = "string" -> [val |-> value, err |-> "nil"]
           [] KindOf(t) = "uint" ->
                LET r == ParseUint(value, 10, Bits(t))
                IN  IF r.err # "nil" THEN [val |-> v, err |-> r.err]
                    ELSE [val |-> r.val, err |-> "nil"]
           [] KindOf(t) = "int" ->
                LET r == ParseInt(value, 10, Bits(t))
                IN  IF r.err # "nil" THEN [val |-> v, err |-> r.err]
                    ELSE [val |-> r.val, err |-> "nil"]
           [] KindOf(t) = "slice" ->
                LET items == NonEmptyItems(Split(value, ","))
                    elems == [n \in 1..Len(items) |->
                                 setDefaultValue(ElemOf(t), Zero(ElemOf(t)), items[n])]
                IN  IF FirstError(elems) # "nil"
                    THEN [val |-> v, err |-> FirstError(elems)]
                    ELSE [val |-> << [n \in 1..Len(items) |-> elems[n].val] >>,
                          err |-> "nil"]
           [] KindOf(t) = "array" ->
                LET items == Split(value, ",")
                    elems == [n \in 1..Len(items) |->
                                 setDefaultValue(ElemOf(t), Zero(ElemOf(t)), items[n])]
                IN  IF ArrayOverflow(t, items)
                    THEN [val |-> v, err |-> ArrayExceeds(t)]
                    ELSE IF FirstError(elems) # "nil"
                    THEN [val |-> v, err |-> FirstError(elems)]
                    ELSE [val |-> [n \in 1..ArrayLen(t) |->
                                      IF n <= Len(items) THEN elems[n].val
                                      ELSE Zero(ElemOf(t))],
                          err |-> "nil"]
           [] KindOf(t) = "map" ->
                LET r == setMapItems(t, Split(value, ","), << >>)
                IN  IF r.err # "nil" THEN [val |-> v, err |-> r.err] ELSE r
           [] KindOf(t) = "ptr" ->
                LET r == setDefaultValue(ElemOf(t), Zero(ElemOf(t)), value)
                IN  IF r.err # "nil" THEN [val |-> v, err |-> r.err]
                    ELSE [val |-> << r.val >>, err |-> "nil"]
           [] OTHER -> [val |-> v, err |-> "unsupported type"]

\* tryCustomTypes(field, value); field.Interface() panics on a field reached
\* through an unexported one.  Of the special types the coerced fields are
\* of time.Duration and net.IPMask only.
tryCustomTypes(fv, v, value) ==
    IF value = << >> \/ ~IsZero(fv.Type, v) THEN [val |-> v, err |-> "nil"]
    ELSE IF ~CanInterface(fv) THEN [val |-> v, err |-> "panic"]
    ELSE IF fv.Type = "time.Duration"
         THEN LET r == ParseDuration(value)
              IN  IF r.err # "nil" THEN [val |-> v, err |-> r.err]
                  ELSE [val |-> r.val, err |-> ErrEnvSetterBreak]
         ELSE IF fv.Type = "net.IPMask"
         THEN LET mask == TrimPrefix(value, <<"/">>)
                  r == Atoi(mask)
              IN  IF r.err # "nil" THEN [val |-> v, err |-> r.err]
                  ELSE [val |-> CIDRMask(r.val, 32), err |-> ErrEnvSetterBreak]
         ELSE [val |-> v, err |-> "nil"]

-----------------------------------------------------------------------------
(* ReflectFieldsOf as the loaders range over it: the whole sequence        *)

RECURSIVE RangeFields(_, _, _, _, _)
RangeFields(o, frames, jj, ii, acc) ==
    IF jj > Len(frames) THEN acc
    ELSE IF ii > NumField(frames[jj].Value)
         THEN RangeFields(o, frames, jj + 1, 1, acc)
         ELSE With(Field(frames[jj].Value, ii), LAMBDA fv :
              With(ReflectValue(fv, StructFields(frames[jj].Value.Type)[ii], jj),
                   LAMBDA node :
              With(FieldStep(o, fv), LAMBDA does :
                 RangeFields(o,
                             IF does = "frame" THEN QueueFrame(frames, jj, node)
                             ELSE frames,
                             jj, ii + 1,
                             IF does = "yield" THEN Append(acc, node) ELSE acc))))

\* the error of the one pair a malformed root gives, and the nodes otherwise
ReflectFieldsOf(in, o) ==
    IF RootError(in) # "nil" THEN [err |-> RootError(in), nodes |-> << >>]
    ELSE [err |-> "nil",
          nodes |-> RangeFields(o, << ReflectValue(RootValue(in), NoField, 0) >>,
                                1, 1, << >>)]

True == "true"
Unset == "unset"

-----------------------------------------------------------------------------
(* SetDefaults                                                             *)

\* the loop of SetDefaults going on to the next field after a field failed,
\* and returning the first error at the end
RECURSIVE SetDefaultsFromContinues(_, _, _)
SetDefaultsFromContinues(nodes, n, d) ==
    IF n > Len(nodes) THEN [dest |-> d, err |-> NoError]
    ELSE LET elem == nodes[n]
             p == elem.Value.Path
             value == elem.Field.Tag.default
         IN  With(tryCustomTypes(elem.Value, d[p], value), LAMBDA c :
             With(setDefaultValue(elem.Value.Type, d[p], value), LAMBDA r :
             With(IF c.err \notin {"nil", ErrEnvSetterBreak} THEN c.err
                  ELSE IF c.err = "nil" THEN r.err ELSE "nil", LAMBDA failed :
             With(IF c.err = ErrEnvSetterBreak THEN c.val
                  ELSE IF failed = "nil" THEN r.val ELSE d[p], LAMBDA set :
             With(SetDefaultsFromContinues(nodes, n + 1, [d EXCEPT ![p] = set]),
                  LAMBDA rest :
                [dest |-> rest.dest,
                 err |-> IF failed = "nil" THEN rest.err
                         ELSE Err("(defaults) failed to set field", elem.Field.Name,
                                  failed, << >>)])))))

\* the loop of SetDefaults from the n-th node on
RECURSIVE SetDefaultsFrom(_, _, _)
SetDefaultsFrom(nodes, n, d) ==
    IF n > Len(nodes) THEN [dest |-> d, err |-> NoError]
    ELSE LET elem == nodes[n]
             p == elem.Value.Path
             value == elem.Field.Tag.default
         IN  With(tryCustomTypes(elem.Value, d[p], value), LAMBDA c :
             IF c.err = ErrEnvSetterBreak
             THEN SetDefaultsFrom(nodes, n + 1, [d EXCEPT ![p] = c.val])
             ELSE IF c.err # "nil"
             THEN [dest |-> d,
                   err |-> Err("(defaults) failed to set field", elem.Field.Name,
                               c.err, << >>)]
             ELSE With(setDefaultValue(elem.Value.Type, d[p], value), LAMBDA r :
                  IF r.err # "nil"
                  THEN [dest |-> d,
                        err |-> Err("(defaults) failed to set field", elem.Field.Name,
                                    r.err, << >>)]
                  ELSE SetDefaultsFrom(nodes, n + 1, [d EXCEPT ![p] = r.val])))

\* SetDefaults(dest): `in` is what the caller passes, d the record behind it
SetDefaults(in, d) ==
    With(ReflectFieldsOf(in, [CanAddr |-> True, CanSet |-> Unset,
                              CanInterface |-> Unset, AsField |-> AsFieldTypes]),
         LAMBDA fields :
            IF fields.err # "nil"
            THEN [dest |-> d, err |-> Err("(defaults)", "", fields.err, << >>)]
            ELSE SetDefaultsFrom(fields.nodes, 1, d))

-----------------------------------------------------------------------------
(* ParseTagOptions                                                         *)

UpperChars == <<"A", "B", "C", "D", "E", "F", "G", "H", "I", "J", "K", "L", "M",
                "N", "O", "P", "Q", "R", "S", "T", "U", "V", "W", "X", "Y", "Z">>
LowerChars == <<"a", "b", "c", "d", "e", "f", "g", "h", "i", "j", "k", "l", "m",
                "n", "o", "p", "q", "r", "s", "t", "u", "v", "w", "x", "y", "z">>

\* a character folded to lower case
Fold(c) ==
    IF \E n \in 1..Len(UpperChars) : UpperChars[n] = c
    THEN LowerChars[CHOOSE n \in 1..Len(UpperChars) : UpperChars[n] = c]
    ELSE c

\* strings.EqualFold
EqualFold(a, b) ==
    Len(a) = Len(b) /\ \A n \in 1..Len(a) : Fold(a[n]) = Fold(b[n])

\* strings.TrimSpace
RECURSIVE TrimSpace(_)
TrimSpace(s) ==
    IF s = << >> THEN s
    ELSE IF s[1] = " " THEN TrimSpace(Tail(s))
    ELSE IF s[Len(s)] = " " THEN TrimSpace(SubSeq(s, 1, Len(s) - 1))
    ELSE s

TxtBase == <<"b", "a", "s", "e", ":">>
TxtShort == <<"s", "h", "o", "r", "t", ":">>
TxtConfigTrue == <<"c", "o", "n", "f", "i", "g", ":", "t", "r", "u", "e">>
TxtTrue == <<"t", "r", "u", "e">>
TxtFalse == <<"f", "a", "l", "s", "e">>
TxtDash == <<"-">>

\* the loop over the tokens of the flag annotation
RECURSIVE TagTokens(_, _)
TagTokens(tmp, opt) ==
    IF tmp = << >> THEN opt
    ELSE LET elem == Head(tmp)
         IN  TagTokens(Tail(tmp),
                IF HasPrefix(elem, TxtBase)
                THEN [opt EXCEPT !.FlagEncodeBase =
                                    TrimSpace(SubSeq(elem, Len(TxtBase) + 1, Len(elem)))]
                ELSE IF HasPrefix(elem, TxtShort)
                THEN [opt EXCEPT !.FlagShortName =
                                    TrimSpace(SubSeq(elem, Len(TxtShort) + 1, Len(elem)))]
                ELSE IF EqualFold(elem, TxtConfigTrue)
                THEN [opt EXCEPT !.FlagConfig = TRUE]
                ELSE opt)

\* ParseTagOptions(tag); the records of the model carry no usage annotation
ParseTagOptions(tag) ==
    LET tmp == Split(tag.flag, ",")
    IN  TagTokens(tmp, [FlagEncodeBase |-> << >>,
                        FlagFullName |-> tmp[1],
                        FlagShortName |-> << >>,
                        FlagConfig |-> FALSE,
                        FieldRequired |-> tag.required = TxtTrue,
                        FieldUsage |-> << >>])

-----------------------------------------------------------------------------
(* LoadEnvs: the decoding of the environment tree into the record by       *)
(* mapstructure.  A field is looked up under its env annotation; a field   *)
(* without one is looked up under its own name, which no entry of the      *)
(* modelled environments carries.  A key that is absent leaves the field   *)
(* alone; the decoder goes on after a field fails and reports at the end.  *)

\* one text decoded into a slot of type t by the decode hooks
decodeEnv(t, v, raw) ==
    IF t = "time.Duration"
    THEN LET r == ParseDuration(raw)
         IN  IF r.err # "nil" THEN [val |-> v, err |-> r.err]
             ELSE [val |-> r.val, err |-> "nil"]
    ELSE IF KindOf(t) = "int"
    THEN LET r == ParseInt(raw, 0, Bits(t))
         IN  IF r.err # "nil" THEN [val |-> v, err |-> r.err]
             ELSE [val |-> r.val, err |-> "nil"]
    ELSE IF KindOf(t) = "string" THEN [val |-> raw, err |-> "nil"]
    ELSE [val |-> v, err |-> "unsupported type"]

\* reflect.MakeSlice(t, n, n): n zero elements
MakeSlice(t, n) == [k \in 1..n |-> Zero(ElemOf(t))]

\* the loop of the fallback hook from the n-th piece on; `decoders` decodes a
\* piece as decodeEnv decodes a text into a slot of the element type
RECURSIVE SliceHookFrom(_, _, _, _)
SliceHookFrom(t, raw, n, tmp) ==
    IF n > Len(raw) THEN [val |-> << tmp >>, decoded |-> TRUE]
    ELSE With(decodeEnv(ElemOf(t), Zero(ElemOf(t)), raw[n]), LAMBDA r :
            IF r.err # "nil" THEN [val |-> << >>, decoded |-> FALSE]
            ELSE SliceHookFrom(t, raw, n + 1, Append(tmp, r.val)))

\* the last hook of decodeEnv, "slice types": f of kind fkind is the source,
\* t the type of the destination.  It returns f.Interface() when it declines
\* and when a piece does not decode.
SliceHook(fkind, t, f) ==
    IF fkind # "string" THEN [val |-> f, decoded |-> FALSE]
    ELSE IF KindOf(t) # "slice" THEN [val |-> f, decoded |-> FALSE]
    ELSE With(Split(f, ","), LAMBDA raw :
         With(SliceHookFrom(t, raw, 1, MakeSlice(t, Len(raw))), LAMBDA r :
            IF r.decoded THEN r ELSE [val |-> f, decoded |-> FALSE]))

RECURSIVE DecodeFields(_, _, _, _)
DecodeFields(v, m, d, n) ==
    IF n > NumField(v) THEN [dest |-> d, failed |-> FALSE]
    ELSE With(StructFields(v.Type)[n].Tag.env, LAMBDA key :
         With(Field(v, n), LAMBDA fv :
         With(IF ~CanSet(fv) \/ key = << >> \/ key \notin DOMAIN m
              THEN [dest |-> d, failed |-> FALSE]
              ELSE IF Kind(fv) = "struct"
              THEN (IF m[key].IsMap THEN DecodeFields(fv, m[key].Map, d, 1)
                    ELSE [dest |-> d, failed |-> TRUE])
              ELSE IF m[key].IsMap THEN [dest |-> d, failed |-> TRUE]
              ELSE With(decodeEnv(fv.Type, d[fv.Path], m[key].Val), LAMBDA r :
                      [dest |-> [d EXCEPT ![fv.Path] = r.val],
                       failed |-> r.err # "nil"]),
              LAMBDA here :
         With(DecodeFields(v, m, here.dest, n + 1), LAMBDA rest :
            [dest |-> rest.dest, failed |-> here.failed \/ rest.failed]))))

\* LoadEnvs(envs, dest)
LoadEnvs(m, in, d) ==
    IF RootError(in) # "nil"
    THEN [dest |-> d, err |-> Err("could not prepare encoder", "", "nil", << >>)]
    ELSE With(DecodeFields(RootValue(in), m, d, 1), LAMBDA r :
            [dest |-> r.dest,
             err |-> IF r.failed THEN Err("could not decode", "", "nil", << >>)
                     ELSE NoError])

-----------------------------------------------------------------------------
(* The flags loader: PrepareFlags binds a flag to every settable field     *)
(* that names one, with the field's current value as the default, and      *)
(* Parse writes the value of every flag the arguments give.  Arguments     *)
(* have the form --name=value.                                             *)

\* the field types prepareFlag has a case for, among the types of the model
FlagTypes == {"string", "int", "time.Duration", "net.IP", "net.IPNet", "net.IPMask"}

RECURSIVE PrepareFlagsFrom(_, _, _)
PrepareFlagsFrom(nodes, n, flagSet) ==
    IF n > Len(nodes) THEN [flagSet |-> flagSet, err |-> NoError]
    ELSE LET elem == nodes[n]
             opts == ParseTagOptions(elem.Field.Tag)
         IN  IF opts.FlagFullName = << >> THEN PrepareFlagsFrom(nodes, n + 1, flagSet)
             ELSE IF Len(opts.FlagShortName) > 1
             THEN [flagSet |-> flagSet,
                   err |-> Err("(flags) shorthand is more than one ASCII character",
                               elem.Field.Name, "nil", << >>)]
             ELSE IF elem.Value.Type \notin FlagTypes
             THEN [flagSet |-> flagSet,
                   err |-> Err("(flags) unknown type", elem.Field.Name, "nil", << >>)]
             ELSE PrepareFlagsFrom(nodes, n + 1,
                     Append(flagSet, [name |-> opts.FlagFullName,
                                      place |-> elem.Value.Path,
                                      type |-> elem.Value.Type]))

\* PrepareFlags(flagSet, dest)
PrepareFlags(in) ==
    With(ReflectFieldsOf(in, [CanAddr |-> Unset, CanSet |-> True,
                              CanInterface |-> Unset, AsField |-> AsFieldTypes]),
         LAMBDA fields :
            IF fields.err # "nil"
            THEN [flagSet |-> << >>, err |-> Err("(flags)", "", fields.err, << >>)]
            ELSE PrepareFlagsFrom(fields.nodes, 1, << >>))

TxtDashDash == <<"-", "-">>

\* the Set method of the pflag value bound to a field of type t
SetFlag(t, v, raw) ==
    IF t = "time.Duration"
    THEN LET r == ParseDuration(raw)
         IN  IF r.err # "nil" THEN [val |-> v, err |-> r.err]
             ELSE [val |-> r.val, err |-> "nil"]
    ELSE IF t = "int"
    THEN LET r == ParseInt(raw, 0, Bits(t))
         IN  IF r.err # "nil" THEN [val |-> v, err |-> r.err]
             ELSE [val |-> r.val, err |-> "nil"]
    ELSE IF t = "string" THEN [val |-> raw, err |-> "nil"]
    ELSE [val |-> v, err |-> "unsupported type"]

\* flagSet.Parse(args): the arguments in order, stopping at the first error
RECURSIVE ParseArgs(_, _, _)
ParseArgs(flagSet, args, d) ==
    IF args = << >> THEN [dest |-> d, err |-> NoError]
    ELSE With(SplitN2(TrimPrefix(Head(args), TxtDashDash), "="), LAMBDA pair :
         With({ n \in 1..Len(flagSet) : flagSet[n].name = pair[1] }, LAMBDA known :
            IF known = {}
            THEN [dest |-> d, err |-> Err("unknown flag", "", "nil", << >>)]
            ELSE With(flagSet[CHOOSE n \in known : TRUE], LAMBDA flag :
                 With(SetFlag(flag.type, d[flag.place], pair[2]), LAMBDA r :
                    IF r.err # "nil"
                    THEN [dest |-> d,
                          err |-> Err("invalid argument", "", r.err, << >>)]
                    ELSE ParseArgs(flagSet, Tail(args),
                                   [d EXCEPT ![flag.place] = r.val])))))

\* the call of the flags parser
LoadFlags(args, in, d) ==
    With(PrepareFlags(in),
         LAMBDA prepared :
            IF prepared.err # NoError THEN [dest |-> d, err |-> prepared.err]
            ELSE ParseArgs(prepared.flagSet, args, d))

-----------------------------------------------------------------------------
(* ValidateRequiredFields                                                  *)

ErrMissingField(field, type, path) == [Field |-> field, Type |-> type, Path |-> path]

\* buildFieldPath: the dotted path, kept as the sequence of its names
buildFieldPath(fieldType, parentPath) == Append(parentPath, fieldType.Name)

\* the annotation does not mark the field as required
NotRequired(requiredTag) == requiredTag \in {<< >>, TxtFalse, TxtDash}

RECURSIVE collectMissingFieldsFirstOnly(_, _, _, _)
collectMissingFieldsFirstOnly(v, parentPath, d, n) ==
    IF n > NumField(v) THEN << >>
    ELSE With(Field(v, n), LAMBDA field :
         With(StructFields(v.Type)[n], LAMBDA fieldType :
         With(collectMissingFieldsFirstOnly(v, parentPath, d, n + 1), LAMBDA rest :
            IF ~CanInterface(field) THEN rest
            ELSE IF Kind(field) = "struct"
            THEN With(collectMissingFieldsFirstOnly(
                         field, buildFieldPath(fieldType, parentPath), d, 1),
                      LAMBDA inner : IF inner # << >> THEN inner ELSE rest)
            ELSE IF NotRequired(fieldType.Tag.required) THEN rest
            ELSE IF ~IsZero(field.Type, d[field.Path]) THEN rest
            ELSE << ErrMissingField(fieldType.Name, fieldType.Type,
                                    buildFieldPath(fieldType, parentPath)) >>)))

\* collectMissingFields(v, parentPath, missingFields): the loop from field n
\* on; the result is what the call appends to missingFields
RECURSIVE collectMissingFieldsFrom(_, _, _, _)
collectMissingFieldsFrom(v, parentPath, d, n) ==
    IF n > NumField(v) THEN << >>
    ELSE With(Field(v, n), LAMBDA field :
         With(StructFields(v.Type)[n], LAMBDA fieldType :
         With(collectMissingFieldsFrom(v, parentPath, d, n + 1), LAMBDA rest :
            IF ~CanInterface(field) THEN rest
            ELSE IF Kind(field) = "struct"
            THEN collectMissingFieldsFrom(field, buildFieldPath(fieldType, parentPath),
                                          d, 1)
                 \o rest
            ELSE IF NotRequired(fieldType.Tag.required) THEN rest
            ELSE IF ~IsZero(field.Type, d[field.Path]) THEN rest
            ELSE << ErrMissingField(fieldType.Name, fieldType.Type,
                                    buildFieldPath(fieldType, parentPath)) >>
                 \o rest)))

collectMissingFields(v, parentPath, d) == collectMissingFieldsFrom(v, parentPath, d, 1)

\* formatMissingFieldsError: one error carrying every line
formatMissingFieldsError(missingFields) ==
    Err("missing required fields:", "", "nil", missingFields)

\* ValidateRequiredFields(input)
ValidateRequiredFields(in, d) ==
    IF in.Kind # "ptr" \/ in.ElemKind # "struct"
    THEN Err("input must be a pointer to a struct", "", "nil", << >>)
    ELSE With(collectMissingFields(RootValue(in), << >>, d), LAMBDA missingFields :
            IF Len(missingFields) > 0 THEN formatMissingFieldsError(missingFields)
            ELSE NoError)

-----------------------------------------------------------------------------
(* New and Load                                                            *)

DefaultLoaderOrderFlagsFirst == <<ParserFlags, ParserEnv, ParserDefaults>>

\* the order used when Config.LoaderOrder is nil
DefaultLoaderOrder == <<ParserDefaults, ParserEnv, ParserFlags>>

\* setLoaderDefaults(c).  LoaderOrder is << >> when nil and holds the order
\* as its one element when set; groups maps a parser type to its parser.
setLoaderDefaults(c) ==
    [Config |-> [c EXCEPT !.LoaderOrder =
                    IF c.LoaderOrder = << >> THEN << DefaultLoaderOrder >>
                    ELSE c.LoaderOrder],
     groups |-> [typ \in (IF c.SkipDefaults THEN {} ELSE {ParserDefaults})
                         \cup (IF c.SkipEnv THEN {} ELSE {ParserEnv})
                         \cup (IF c.SkipFlags THEN {} ELSE {ParserFlags})
                    |-> typ]]

\* the environments, arguments and orders handed to New
Txt_N_n == <<"N", "=", "n">>
Txt_N_empty == <<"N", "=">>
Txt_P_7 == <<"P", "=", "7">>
Txt_P_0 == <<"P", "=", "0">>
Txt_P_x == <<"P", "=", "x">>
Txt_W_1m == <<"W", "=", "1", "m">>
Txt_DH_d == <<"D", "_", "H", "=", "d">>
Txt_T_t == <<"T", "=", "t">>
Txt_L_9 == <<"L", "=", "9">>

LoadEnvLists ==
    { << >>, <<Txt_N_n>>, <<Txt_N_empty>>, <<Txt_P_7>>, <<Txt_P_0>>, <<Txt_P_x>>,
      <<Txt_W_1m>>, <<Txt_DH_d>>, <<Txt_T_t>>, <<Txt_L_9>>,
      <<Txt_N_n, Txt_P_7, Txt_T_t>>, <<Txt_P_7, Txt_P_0>>,
      <<Txt_N_n, Txt_DH_d, Txt_W_1m, Txt_L_9>> }

Arg_n_f == <<"-", "-", "n", "=", "f">>
Arg_p_9 == <<"-", "-", "p", "=", "9">>
Arg_p_0 == <<"-", "-", "p", "=", "0">>
Arg_p_zz == <<"-", "-", "p", "=", "z", "z">>
Arg_d_g == <<"-", "-", "d", "=", "g">>
Arg_q_1 == <<"-", "-", "q", "=", "1">>

LoadArgLists ==
    { << >>, <<Arg_n_f>>, <<Arg_p_9>>, <<Arg_p_0>>, <<Arg_p_zz>>, <<Arg_d_g>>,
      <<Arg_q_1>>, <<Arg_n_f, Arg_p_9>>, <<Arg_n_f, Arg_d_g>> }

LoaderOrders ==
    { << >>,
      << <<ParserDefaults, ParserEnv, ParserFlags>> >>,
      << <<ParserDefaults, ParserFlags, ParserEnv>> >>,
      << <<ParserEnv, ParserDefaults, ParserFlags>> >>,
      << <<ParserEnv, ParserFlags, ParserDefaults>> >>,
      << <<ParserFlags, ParserDefaults, ParserEnv>> >>,
      << <<ParserFlags, ParserEnv, ParserDefaults>> >>,
      << <<ParserEnv, ParserFlags>> >> }

Skips ==
    { <<FALSE, FALSE, FALSE>>, <<TRUE, FALSE, FALSE>>, <<FALSE, TRUE, FALSE>>,
      <<FALSE, FALSE, TRUE>>, <<TRUE, TRUE, TRUE>> }

LoadConfigs ==
    { [SkipDefaults |-> sk[1], SkipEnv |-> sk[2], SkipFlags |-> sk[3],
       EnvPrefix |-> << >>, LoaderOrder |-> lo, Envs |-> en, Args |-> ar]
      : sk \in Skips, lo \in LoaderOrders, en \in LoadEnvLists, ar \in LoadArgLists }

LoadTargets == { PointerTo("Service"), PointerTo("Strict"), PointerTo("Sealed") }

\* parser := New(config); var cfg T; parser.Load(&cfg) is about to run
LoadInit ==
    /\ target \in LoadTargets
    /\ dest = ZeroRecord(target.ElemType)
    /\ config \in LoadConfigs
    /\ svc = setLoaderDefaults(config)
    /\ ord = 1
    /\ lpc = "order"
    /\ lerr = NoError
    /\ WalkIdle
    /\ EnvIdle
    /\ CoerceIdle
    /\ TagIdle
    /\ OptionsIdle

LoaderOrder == svc.Config.LoaderOrder[1]
InOrder == lpc = "order" /\ ord <= Len(LoaderOrder)

\* the parser the loop is at is the built-in parser of this type
AtParser(typ) ==
    /\ InOrder
    /\ LoaderOrder[ord] \in DOMAIN svc.groups
    /\ svc.groups[LoaderOrder[ord]] = typ

\* if svc.groups[typ] == nil { return fmt.Errorf("gonfig: empty parser %s", typ) }
LoadEmptyParser ==
    /\ InOrder
    /\ LoaderOrder[ord] \notin DOMAIN svc.groups
    /\ lerr' = Err("gonfig: empty parser", LoaderOrder[ord], "nil", << >>)
    /\ lpc' = "done"
    /\ UNCHANGED <<target, dest, config, svc, ord>>
    /\ UNCHANGED notLoad

\* if err := svc.groups[typ].Load(v); err != nil { return err }: the loop goes
\* on after a nil error, Load returns the error otherwise, and a panic of the
\* parser leaves Load without a result
ParserReturns(r) ==
    /\ dest' = r.dest
    /\ ord' = IF r.err = NoError THEN ord + 1 ELSE ord
    /\ lerr' = IF r.err # NoError /\ r.err.cause # "panic" THEN r.err ELSE lerr
    /\ lpc' = IF r.err = NoError THEN lpc
              ELSE IF r.err.cause = "panic" THEN "panic"
              ELSE "done"
    /\ UNCHANGED <<target, config, svc>>
    /\ UNCHANGED notLoad

\* the defaults parser: SetDefaults(v)
LoadDefaults ==
    /\ AtParser(ParserDefaults)
    /\ \E r \in {SetDefaults(target, dest)} : ParserReturns(r)

\* the env parser: LoadEnvs(PrepareEnvs(envs, prefix), v)
LoadEnv ==
    /\ AtParser(ParserEnv)
    /\ \E m \in {PrepareEnvs(svc.Config.Envs, svc.Config.EnvPrefix)} :
          \E r \in {LoadEnvs(m, target, dest)} : ParserReturns(r)

\* the flags parser: PrepareFlags(set, val), then set.Parse(args)
LoadFlag ==
    /\ AtParser(ParserFlags)
    /\ \E r \in {LoadFlags(svc.Config.Args, target, dest)} : ParserReturns(r)

\* return ValidateRequiredFields(v)
LoadValidate ==
    /\ lpc = "order"
    /\ ord > Len(LoaderOrder)
    /\ lerr' = ValidateRequiredFields(target, dest)
    /\ lpc' = "done"
    /\ UNCHANGED <<target, dest, config, svc, ord>>
    /\ UNCHANGED notLoad

LoadNext ==
    \/ LoadEmptyParser
    \/ LoadDefaults
    \/ LoadEnv
    \/ LoadFlag
    \/ LoadValidate

SpecLoad == LoadInit /\ [][LoadNext]_vars

-----------------------------------------------------------------------------
(* ValidateRequiredFields called on its own, on records in every           *)
(* combination of zero and non-zero slots                                  *)

\* a value of type t that is not its zero value
RequiredTypes == {"User", "NestedAnonymous", "Account"}

RequiredTargets ==
    { PointerTo(t) : t \in RequiredTypes }
    \cup { [Kind |-> "struct", ElemKind |-> "invalid", ElemType |-> "User"],
           [Kind |-> "ptr", ElemKind |-> "int", ElemType |-> "int"],
           [Kind |-> "ptr", ElemKind |-> "invalid", ElemType |-> "User"] }

RecordsOf(t) ==
    { [p \in Slots(t) |-> IF p \in zeros THEN Zero(FieldAt(t, p).Type)
                          ELSE NonZero(FieldAt(t, p).Type)]
      : zeros \in SUBSET Slots(t) }

RequiredInit ==
    /\ target \in RequiredTargets
    /\ dest \in RecordsOf(target.ElemType)
    /\ config = [SkipDefaults |-> FALSE, SkipEnv |-> FALSE, SkipFlags |-> FALSE,
                 EnvPrefix |-> << >>, LoaderOrder |-> << >>,
                 Envs |-> << >>, Args |-> << >>]
    /\ svc = [Config |-> config, groups |-> << >>]
    /\ ord = 1
    /\ lpc = "validate"
    /\ lerr = NoError
    /\ WalkIdle
    /\ EnvIdle
    /\ CoerceIdle
    /\ TagIdle
    /\ OptionsIdle

\* err := ValidateRequiredFields(input)
ValidateCall ==
    /\ lpc = "validate"
    /\ lerr' = ValidateRequiredFields(target, dest)
    /\ lpc' = "done"
    /\ UNCHANGED <<target, dest, config, svc, ord>>
    /\ UNCHANGED notLoad

RequiredNext == ValidateCall

SpecRequired == RequiredInit /\ [][RequiredNext]_vars

-----------------------------------------------------------------------------
(* Properties of SetDefaults and of Load                                   *)

SlotType(p) == FieldAt(target.ElemType, p).Type
DefaultOf(p) == FieldAt(target.ElemType, p).Tag.default
SlotValue(p) == ValueAt(RootValue(target), p)

\* the slot's default cannot act: there is no text, or the slot is not zero
Settled(p) == DefaultOf(p) = << >> \/ ~IsZero(SlotType(p), dest[p])

\* raw texts tried on every slot: empty, well-formed and malformed ones
CoercionTexts ==
    { << >>, <<"x">>, <<"7">>, <<"3", "0", "0">>, <<"5", "s">>, <<"1", ",", "x">> }

\* C1: coercion leaves a slot alone and succeeds when the raw text is empty
\* or the slot holds a non-zero value; so a run of SetDefaults, wherever it
\* stands in LoaderOrder, changes no slot that is non-zero (or has no
\* default), and fails or panics only on a slot that was zero and has one.
C1_DefaultsKeepNonZeroSlots ==
    [][ LoadDefaults =>
          /\ \A p \in DOMAIN dest :
                /\ Settled(p) => dest'[p] = dest[p]
                /\ \A raw \in CoercionTexts :
                      (raw = << >> \/ ~IsZero(SlotType(p), dest[p])) =>
                          /\ setDefaultValue(SlotType(p), dest[p], raw)
                                = [val |-> dest[p], err |-> "nil"]
                          /\ tryCustomTypes(SlotValue(p), dest[p], raw)
                                = [val |-> dest[p], err |-> "nil"]
          /\ (lerr' # lerr \/ lpc' = "panic") =>
                \E p \in DOMAIN dest :
                    /\ ~Settled(p)
                    /\ lpc' = "done" => FieldAt(target.ElemType, p).Name = lerr'.field
          /\ (\A p \in DOMAIN dest : Settled(p)) => (lerr' = NoError /\ ord' = ord + 1)
      ]_vars

\* env ran before defaults: Level kept the 9 of the environment although its
\* default "300" does not fit an int8, Name was zero and took its default
C1_Witness ==
    /\ lpc = "done"
    /\ target = PointerTo("Strict")
    /\ config.LoaderOrder = << <<ParserEnv, ParserDefaults, ParserFlags>> >>
    /\ config.Envs = <<Txt_L_9>>
    /\ lerr = NoError
    /\ dest[<<2>>] = 9
    /\ dest[<<1>>] = <<"a", "b">>
    /\ dest[<<3>>] = 42

\* the env name of a slot: the env annotations along its place, joined
RECURSIVE EnvSegments(_, _)
EnvSegments(t, p) ==
    IF p = << >> THEN << >>
    ELSE << StructFields(t)[p[1]].Tag.env >> \o EnvSegments(StructFields(t)[p[1]].Type, Tail(p))

EnvNameOf(p) == Join(EnvSegments(target.ElemType, p), envDelimiter)
FlagNameOf(p) == FieldAt(target.ElemType, p).Tag.flag

\* the values the environment list and the arguments give under a name
EnvGiven(p) ==
    { n \in 1..Len(config.Envs) :
         SplitN2(config.Envs[n], envPairDelim)[1] = EnvNameOf(p) }
FlagGiven(p) ==
    { n \in 1..Len(config.Args) :
         SplitN2(config.Args[n], "=")[1] = TxtDashDash \o FlagNameOf(p) }
LastOf(S) == CHOOSE n \in S : \A m \in S : m <= n

\* the value a text denotes for a slot: itself for a string, the decimal
\* number it writes for an integer
Denoted(p, raw) ==
    IF KindOf(SlotType(p)) = "string" THEN raw ELSE ParseInt(raw, 10, Bits("int")).val

\* the slots that have a default, an env and a flag annotation
FullyAnnotated ==
    { p \in DOMAIN dest :
         /\ DefaultOf(p) # << >>
         /\ FlagNameOf(p) # << >>
         /\ \A n \in 1..Len(p) : EnvSegments(target.ElemType, p)[n] # << >> }

AllSourcesRan ==
    /\ lpc = "done"
    /\ lerr.msg \in {"nil", "missing required fields:"}

DefaultOrderNoSkips ==
    /\ config.LoaderOrder = << >>
    /\ ~config.SkipDefaults /\ ~config.SkipEnv /\ ~config.SkipFlags

\* C5: with the default order, after a Load of a fresh record in which the
\* three sources ran, a field with a default, an env and a flag annotation
\* holds the flag's value if the arguments give one, else the environment's
\* value if the environment gives one, else its default.
C5_FlagOverEnvOverDefault ==
    (AllSourcesRan /\ DefaultOrderNoSkips) =>
        \A p \in FullyAnnotated :
            dest[p] =
                IF FlagGiven(p) # {}
                THEN Denoted(p, SplitN2(config.Args[LastOf(FlagGiven(p))], "=")[2])
                ELSE IF EnvGiven(p) # {}
                THEN Denoted(p, SplitN2(config.Envs[LastOf(EnvGiven(p))], envPairDelim)[2])
                ELSE Denoted(p, DefaultOf(p))

\* Name has all three and holds the flag's value, Port has a default and an
\* environment value and holds the latter, DB.Host has only its default
C5_Witness ==
    /\ AllSourcesRan /\ DefaultOrderNoSkips
    /\ target = PointerTo("Service")
    /\ config.Envs = <<Txt_N_n, Txt_P_7, Txt_T_t>>
    /\ config.Args = <<Arg_n_f>>
    /\ dest[<<1>>] = <<"f">>
    /\ dest[<<2>>] = 7
    /\ dest[<<4, 1>>] = <<"h">>
    /\ lerr = NoError

\* C4 as stated: with LoaderOrder unset and a source skipped, Load does not
\* fail because of the skipped source, runs the loop to its end unless a
\* remaining source fails, and a skipped defaults source fills no slot.
C4_SkippedSourceIsLeftOut ==
    (lpc = "done" /\ config.LoaderOrder = << >>
       /\ (config.SkipDefaults \/ config.SkipEnv \/ config.SkipFlags)) =>
        /\ lerr.msg # "gonfig: empty parser"
        /\ lerr.msg \in {"nil", "missing required fields:"} => ord > Len(LoaderOrder)
        /\ config.SkipDefaults =>
              \A p \in DOMAIN dest :
                  (EnvGiven(p) = {} /\ FlagGiven(p) = {}) => IsZero(SlotType(p), dest[p])

-----------------------------------------------------------------------------
(* Properties of ValidateRequiredFields                                    *)

\* the names along a place
RECURSIVE NamePath(_, _)
NamePath(t, p) ==
    IF p = << >> THEN << >>
    ELSE << StructFields(t)[p[1]].Name >> \o NamePath(StructFields(t)[p[1]].Type, Tail(p))

\* the field at p and every record around it are exported
ExportedChain(t, p) == \A n \in 1..Len(p) : FieldAt(t, Prefix(p, n)).Exported

\* the field at p holds its zero value: a record does when all its slots do
HoldsZero(t, p, d) ==
    \A q \in DOMAIN d :
        (Len(q) >= Len(p) /\ Prefix(q, Len(p)) = p) => IsZero(FieldAt(t, q).Type, d[q])

\* the fields that are marked required, hold their zero value and are
\* reachable through exported record fields, among the given places
RequiredMissing(places) ==
    { p \in places :
         /\ ExportedChain(target.ElemType, p)
         /\ ~NotRequired(FieldAt(target.ElemType, p).Tag.required)
         /\ HoldsZero(target.ElemType, p, dest) }

\* how often the returned error lists the field at p
Reported(p) ==
    Cardinality({ n \in 1..Len(lerr.missing) :
                     lerr.missing[n].Path = NamePath(target.ElemType, p) })

Validated == lpc = "done" /\ RootError(target) = "nil"

\* C6 as stated: every field (record fields included) that is marked
\* required, zero and reachable through exported record fields is listed
\* exactly once, and the result is nil exactly when there is none.
C6_EveryRequiredFieldListed ==
    Validated =>
        /\ \A p \in RequiredMissing(PlacesIn(target.ElemType)) : Reported(p) = 1
        /\ (lerr = NoError) <=> (RequiredMissing(PlacesIn(target.ElemType)) = {})

\* C6 amended: every field that is not itself a record and is marked
\* required, zero and reachable through exported record fields is listed
\* exactly once in the one error, nothing else is listed, and the result is
\* nil exactly when there is no such field.
C6_EveryRequiredSlotListed ==
    Validated =>
        /\ \A p \in RequiredMissing(DOMAIN dest) : Reported(p) = 1
        /\ \A n \in 1..Len(lerr.missing) :
              \E p \in RequiredMissing(DOMAIN dest) :
                  lerr.missing[n].Path = NamePath(target.ElemType, p)
        /\ (lerr = NoError) <=> (RequiredMissing(DOMAIN dest) = {})
        /\ lerr # NoError => lerr.msg = "missing required fields:"

\* an Account with every slot zero: ID, the nested Profile.Nick and Owner are
\* listed; the unexported secret and the fields of the unexported hidden
\* record are not
C6_Witness ==
    /\ Validated
    /\ target = PointerTo("Account")
    /\ dest = ZeroRecord("Account")
    /\ Len(lerr.missing) = 3
    /\ { lerr.missing[n].Path : n \in 1..3 }
          = { <<"ID">>, <<"Profile", "Nick">>, <<"Owner">> }

-----------------------------------------------------------------------------
(* One field coerced: the loop body of SetDefaults on a record of a single *)
(* exported field, as TestSetDefaultValueErrors builds them with           *)
(* reflect.StructOf: tryCustomTypes first, setDefaultValue if it declined. *)

\* the types of the field
CoerceTypes ==
    {"string", "int8", "uint8", "int", "[]int8", "[]string", "[2]int8",
     "map[string]int8", "net.IPMask", "*int", "time.Duration", "interface {}",
     "[]time.Duration"}

\* the texts of the default annotation: integers inside and outside the
\* 8-bit ranges, lists with empty segments, map entries of one, two and
\* three parts, prefix lengths with and without the separator
DefaultTexts ==
    {
      << >>,
      << "0" >>,
      << "5" >>,
      << "+", "5" >>,
      << "-", "5" >>,
      << "1", "2", "7" >>,
      << "1", "2", "8" >>,
      << "-", "1", "2", "8" >>,
      << "-", "1", "2", "9" >>,
      << "2", "5", "5" >>,
      << "2", "5", "6" >>,
      << "x" >>,
      << "1", "x" >>,
      << "1", ",", "2", ",", "3", ",", "," >>,
      << ",", "," >>,
      << "1", ",", ",", "2" >>,
      << "1", ",", "x" >>,
      << "a", ",", ",", "b" >>,
      << "3", "0", "0", ",", "1" >>,
      << "1", ",", "2" >>,
      << ",", "5" >>,
      << "1", ",", "2", ",", "3" >>,
      << "x", ",", "1", ",", "2" >>,
      << ",", ",", "5" >>,
      << "a", ":", "1", ",", "b", ":", "2" >>,
      << "a", ":", "1", ",", "b", ",", "c", ":", "2", ":", "3" >>,
      << "a", ":", "1", ",", "a", ":", "2" >>,
      << "a", ":", "x" >>,
      << ":", "5" >>,
      << "a", ":", "1", ",", ",", "b", ":", "2" >>,
      << "/", "2", "4" >>,
      << "/", "0" >>,
      << "/", "3", "2" >>,
      << "/", "3", "3" >>,
      << "2", "4" >>,
      << "/", "x" >>,
      << "/", "/", "2", "4" >>,
      << "/", "-", "1" >>,
      << "/" >>,
      << "/", "3", "0" >>,
      << "5", "s" >>
    }

CoerceInit ==
    /\ cfield \in CoerceTypes
    /\ cvalue \in DefaultTexts
    /\ cslot \in {Zero(cfield), NonZero(cfield)}
    /\ cerr = "nil"
    /\ cpc = "call"
    /\ WalkIdle
    /\ EnvIdle
    /\ LoadIdle
    /\ TagIdle
    /\ OptionsIdle

\* elem.Value: the field of a record the caller holds a pointer to
CoerceValue == RV(cfield, <<1>>, TRUE, FALSE, FALSE)

\* tryCustomTypes took the field: it set it (ErrEnvSetterBreak, the loop
\* continues) or it failed
CoerceCustomType ==
    /\ cpc = "call"
    /\ \E c \in {tryCustomTypes(CoerceValue, cslot, cvalue)} :
          /\ c.err # "nil"
          /\ cslot' = c.val
          /\ cerr' = IF c.err = ErrEnvSetterBreak THEN "nil" ELSE c.err
    /\ cpc' = "done"
    /\ UNCHANGED <<cfield, cvalue>>
    /\ UNCHANGED notCoerce

\* tryCustomTypes returned nil: setDefaultValue(elem.Value, value)
CoerceByKind ==
    /\ cpc = "call"
    /\ \E c \in {tryCustomTypes(CoerceValue, cslot, cvalue)} : c.err = "nil"
    /\ \E r \in {setDefaultValue(cfield, cslot, cvalue)} :
          /\ cslot' = r.val
          /\ cerr' = r.err
    /\ cpc' = "done"
    /\ UNCHANGED <<cfield, cvalue>>
    /\ UNCHANGED notCoerce

CoerceNext == CoerceCustomType \/ CoerceByKind

SpecCoerce == CoerceInit /\ [][CoerceNext]_vars

-----------------------------------------------------------------------------
(* The fallback slice hook of decodeEnv called with one source and one     *)
(* destination.  cvalue is the text of the variable, cslot the source the  *)
(* hook is handed, cpc the kind of that source, cfield the type of the     *)
(* destination.                                                            *)

\* the types of the destination
HookTypes == {"[]int8", "[]string", "string", "int8", "[2]int8", "map[string]int8"}

\* the source: the text itself, or what StringToSliceHookFunc made of it
HookInit ==
    /\ cfield \in HookTypes
    /\ cvalue \in DefaultTexts
    /\ cpc \in {"string", "slice"}
    /\ cslot = (IF cpc = "string" THEN cvalue ELSE << Split(cvalue, ",") >>)
    /\ cerr = "nil"
    /\ WalkIdle
    /\ EnvIdle
    /\ LoadIdle
    /\ TagIdle
    /\ OptionsIdle

\* return f.Interface(), nil
HookDeclines ==
    /\ cpc \in {"string", "slice"}
    /\ \E r \in {SliceHook(cpc, cfield, cslot)} :
          /\ ~r.decoded
          /\ cslot' = r.val
    /\ cpc' = "declined"
    /\ UNCHANGED <<cfield, cvalue, cerr>>
    /\ UNCHANGED notCoerce

\* return tmp.Interface(), nil
HookDecodes ==
    /\ cpc \in {"string", "slice"}
    /\ \E r \in {SliceHook(cpc, cfield, cslot)} :
          /\ r.decoded
          /\ cslot' = r.val
    /\ cpc' = "decoded"
    /\ UNCHANGED <<cfield, cvalue, cerr>>
    /\ UNCHANGED notCoerce

HookNext == HookDeclines \/ HookDecodes

SpecHook == HookInit /\ [][HookNext]_vars

-----------------------------------------------------------------------------
(* SetDefaults called by itself, once and again, on a record some of whose *)
(* fields the caller has filled.                                           *)

\* how many times the caller applies SetDefaults to the same record
MaxCalls == 2

DefaultsTargets ==
    { PointerTo("Service"), PointerTo("Strict"), PointerTo("Sealed"),
      PointerTo("Limits"), PointerTo("Marked"),
      [Kind |-> "struct", ElemKind |-> "invalid", ElemType |-> "Strict"] }

DefaultsInit ==
    /\ target \in DefaultsTargets
    /\ dest \in RecordsOf(target.ElemType)
    /\ config = [SkipDefaults |-> FALSE, SkipEnv |-> FALSE, SkipFlags |-> FALSE,
                 EnvPrefix |-> << >>, LoaderOrder |-> << >>,
                 Envs |-> << >>, Args |-> << >>]
    /\ svc = [Config |-> config, groups |-> << >>]
    /\ ord = 1
    /\ lpc = "defaults"
    /\ lerr = NoError
    /\ WalkIdle
    /\ EnvIdle
    /\ CoerceIdle
    /\ TagIdle
    /\ OptionsIdle

\* err = SetDefaults(dest) returned
DefaultsCall ==
    /\ lpc = "defaults"
    /\ ord <= MaxCalls
    /\ \E r \in {SetDefaults(target, dest)} :
          /\ r.err.cause # "panic"
          /\ dest' = r.dest
          /\ lerr' = r.err
    /\ ord' = ord + 1
    /\ UNCHANGED <<target, config, svc, lpc>>
    /\ UNCHANGED notLoad

\* SetDefaults(dest) panicked in field.Interface()
DefaultsPanic ==
    /\ lpc = "defaults"
    /\ ord <= MaxCalls
    /\ \E r \in {SetDefaults(target, dest)} :
          /\ r.err.cause = "panic"
          /\ dest' = r.dest
    /\ lpc' = "panic"
    /\ UNCHANGED <<target, config, svc, ord, lerr>>
    /\ UNCHANGED notLoad

DefaultsNext == DefaultsCall \/ DefaultsPanic

SpecDefaults == DefaultsInit /\ [][DefaultsNext]_vars

-----------------------------------------------------------------------------
(* ParseTagOptions called on the struct tag of one field                   *)

\* how many comma-separated tokens the flag annotation has at most
MaxTokens == 3

\* the tokens the flag annotations are made of
TagTokenPool ==
    {
      << "n", "a", "m", "e" >>,
      << "s", "h", "o", "r", "t", ":", "x" >>,
      << "b", "a", "s", "e", ":", "h", "e", "x" >>,
      << "c", "o", "n", "f", "i", "g", ":", "t", "r", "u", "e" >>,
      << "C", "o", "n", "f", "i", "g", ":", "T", "r", "u", "e" >>,
      << >>,
      << "n" >>,
      << "s", "h", "o", "r", "t", ":", " ", "y", " " >>
    }

\* the flag annotations: one to MaxTokens tokens joined by commas
FlagTexts ==
    { Join(tokens, ",") :
        tokens \in UNION { [1..n -> TagTokenPool] : n \in 1..MaxTokens } }

\* the texts of the required annotation: absent, the three the validator
\* and the tag parser name, and two they do not
RequiredTexts ==
    { << >>, TxtTrue, TxtFalse, TxtDash, <<"y", "e", "s">>, <<"T", "r", "u", "e">> }

TagInit ==
    /\ ptag \in { TagOf(<< >>, << >>, flag, required) :
                    flag \in FlagTexts, required \in RequiredTexts }
    /\ popt = << >>
    /\ ppc = "call"
    /\ WalkIdle
    /\ EnvIdle
    /\ LoadIdle
    /\ CoerceIdle
    /\ OptionsIdle

\* opt := ParseTagOptions(tag)
ParseTag ==
    /\ ppc = "call"
    /\ popt' = << ParseTagOptions(ptag) >>
    /\ ppc' = "done"
    /\ UNCHANGED ptag
    /\ UNCHANGED notTag

TagNext == ParseTag

SpecTag == TagInit /\ [][TagNext]_vars

-----------------------------------------------------------------------------
(* Properties of the stop signal of ReflectFieldsOf                        *)

\* the nodes an uninterrupted traversal of the same record delivers
Uninterrupted == ReflectFieldsOf(input, options).nodes

\* C11: once the consumer has returned the stop signal the walker never
\* calls it again, nor after the single error pair of a malformed root,
\* whatever the consumer answered to it; and the nodes delivered so far are
\* always the first k nodes an uninterrupted traversal of the same record
\* delivers.
C11_StopEndsDelivery ==
    /\ [](/\ Len(Yielded) <= Len(Uninterrupted)
          /\ Yielded = SubSeq(Uninterrupted, 1, Len(Yielded)))
    /\ [][stopped => pairs' = pairs]_vars
    /\ [][(pairs # << >> /\ pairs[Len(pairs)].err # "nil") => pairs' = pairs]_vars

\* the consumer stopped a traversal part of the way through
C11_Witness ==
    /\ stopped
    /\ wpc = "done"
    /\ WellFormedRoot
    /\ Len(Yielded) >= 2
    /\ Len(Yielded) < Len(Uninterrupted)

-----------------------------------------------------------------------------
(* Properties of SetDefaults applied to a record                           *)

\* what the loop body of SetDefaults makes of the field at place p of the
\* record d, taken by itself: the value it leaves and its error
FieldAlone(p, d) ==
    LET t == FieldAt(target.ElemType, p).Type
        value == FieldAt(target.ElemType, p).Tag.default
        c == tryCustomTypes(ValueAt(RootValue(target), p), d[p], value)
    IN  IF c.err = ErrEnvSetterBreak THEN [val |-> c.val, err |-> "nil"]
        ELSE IF c.err # "nil" THEN c
        ELSE setDefaultValue(t, d[p], value)

\* C12: SetDefaults is idempotent: when an application of SetDefaults to a
\* record has succeeded, the next application to the same record succeeds
\* too and leaves every field equal to its value after the first one.
C12_SecondApplicationChangesNothing ==
    [][(DefaultsCall /\ ord > 1 /\ lerr = NoError)
          => (lerr' = NoError /\ dest' = dest)]_vars

\* two applications succeeded on a record whose array, map and mask were
\* filled by the first
C12_Witness ==
    /\ lpc = "defaults"
    /\ ord = 3
    /\ lerr = NoError
    /\ target = PointerTo("Limits")
    /\ dest[<<2>>] = << <<255, 255, 255, 0>> >>
    /\ dest[<<3>>] = <<0, 5>>
    /\ dest[<<4>>] # << >>
    /\ dest[<<6>>] = <<"z">>

\* C18: when the coercion of a field fails, SetDefaults returns the error
\* wrapped with the name of that field; the failing field and every field
\* later in walker order (deeper, or later in declaration order at the same
\* depth) are left as they were, and every earlier field holds the value
\* its own coercion assigned.
C18_FailureAbortsTheRecord ==
    [][(DefaultsCall /\ lerr'.msg = "(defaults) failed to set field")
          => \E pf \in Slots(target.ElemType) :
                /\ lerr'.field = FieldAt(target.ElemType, pf).Name
                /\ lerr'.cause = FieldAlone(pf, dest).err
                /\ lerr'.cause # "nil"
                /\ \A q \in Slots(target.ElemType) :
                      /\ (q = pf \/ Before(pf, q)) => dest'[q] = dest[q]
                      /\ Before(q, pf) =>
                            /\ FieldAlone(q, dest).err = "nil"
                            /\ dest'[q] = FieldAlone(q, dest).val]_vars

\* Level failed: Mask, Pair and Codes before it were assigned, After and the
\* deeper Tail, which is declared first, were not
C18_Witness ==
    /\ lpc = "defaults"
    /\ ord = 2
    /\ target = PointerTo("Limits")
    /\ lerr.msg = "(defaults) failed to set field"
    /\ lerr.field = "Level"
    /\ dest[<<2>>] = << <<255, 255, 255, 0>> >>
    /\ dest[<<3>>] = <<0, 5>>
    /\ dest[<<6>>] = << >>
    /\ dest[<<1, 1>>] = << >>

\* the types of the model that implement encoding.TextUnmarshaler
TextUnmarshalers == {"custom"}

\* the slot (*custom).UnmarshalText assigns in a field at place p
UnmarshalTextSlot(p) == p \o <<1>>

\* the places of the fields of the target whose type has UnmarshalText and
\* whose default annotation is not empty
UnmarshalledPlaces ==
    { <<n>> : n \in { m \in 1..Len(StructFields(target.ElemType)) :
                        /\ StructFields(target.ElemType)[m].Type \in TextUnmarshalers
                        /\ StructFields(target.ElemType)[m].Tag.default # << >> } }

\* C23: SetDefaults supports fields whose type implements
\* encoding.TextUnmarshaler: a successful application hands the default
\* text of such a field to UnmarshalText, which stores it, and the fields
\* declared after it receive their defaults.
C23_TextUnmarshalerReceivesDefault ==
    [][(DefaultsCall /\ lerr' = NoError) =>
          \A p \in UnmarshalledPlaces :
             /\ dest[UnmarshalTextSlot(p)] = << >> =>
                   dest'[UnmarshalTextSlot(p)]
                      = FieldAt(target.ElemType, p).Tag.default
             /\ \A q \in Slots(target.ElemType) :
                   (Len(q) = 1 /\ q[1] > p[1] /\ dest[q] = << >>
                       /\ FieldAt(target.ElemType, q).Type = "string")
                      => dest'[q] = FieldAt(target.ElemType, q).Tag.default]_vars

-----------------------------------------------------------------------------
(* Properties of the coercion of one field.  They are about a coercion     *)
(* that acts: the text is not empty and the field holds its zero value.    *)

\* the loop body of SetDefaults ran on a zero field with a text
Coerces == CoerceNext /\ cvalue # << >> /\ IsZero(cfield, cslot)

\* the comma-separated segments of a text that are not empty, in order
NonEmptySegments(text) == SelectSeq(Split(text, ","), LAMBDA seg : seg # << >>)

\* s is written as a base-10 integer: digits, after a sign if one may be
IsDecimal(s, signed) ==
    LET digits == IF signed /\ s # << >> /\ s[1] \in {"+", "-"} THEN Tail(s) ELSE s
    IN  digits # << >> /\ \A n \in 1..Len(digits) : IsDigit(digits[n])

\* the integer a base-10 text writes
DecimalOf(s) ==
    IF s[1] = "-" THEN 0 - Number(Tail(s), 10)
    ELSE IF s[1] = "+" THEN Number(Tail(s), 10)
    ELSE Number(s, 10)

Signed(t) == KindOf(t) = "int"

\* the values of the integer types
Least(t) == CASE t = "int8" -> -128 [] t = "uint8" -> 0 [] OTHER -> -1000000
Greatest(t) == CASE t = "int8" -> 127 [] t = "uint8" -> 255 [] OTHER -> 1000000

\* the text coerces into an integer type: it writes a number of the type
WritesA(t, s) ==
    /\ IsDecimal(s, Signed(t))
    /\ DecimalOf(s) >= Least(t)
    /\ DecimalOf(s) <= Greatest(t)

\* the element a segment stands for in a sequence of strings or of int8
ElementOf(t, seg) == IF ElemOf(t) = "string" THEN seg ELSE DecimalOf(seg)
ElementWritten(t, seg) == ElemOf(t) = "string" \/ WritesA(ElemOf(t), seg)

\* C13: a text coerced into a sequence is split on comma, the empty
\* segments are dropped and exactly the coerced non-empty segments are
\* stored, in their order, so that the length is the number of non-empty
\* segments; when a non-empty segment does not coerce the coercion fails and
\* the sequence is left as it was.
C13_SequenceOfNonEmptySegments ==
    [][(Coerces /\ cfield \in {"[]int8", "[]string"}) =>
          LET segs == NonEmptySegments(cvalue)
          IN  IF \A n \in 1..Len(segs) : ElementWritten(cfield, segs[n])
              THEN /\ cerr' = "nil"
                   /\ cslot' # << >>
                   /\ Len(cslot'[1]) = Len(segs)
                   /\ \A n \in 1..Len(segs) :
                         cslot'[1][n] = ElementOf(cfield, segs[n])
              ELSE /\ cerr' # "nil"
                   /\ cslot' = cslot]_vars

\* "1,2,3,," gave [1, 2, 3]
C13_Witness ==
    /\ cpc = "done"
    /\ cfield = "[]int8"
    /\ cvalue = << "1", ",", "2", ",", "3", ",", "," >>
    /\ cerr = "nil"
    /\ cslot = << <<1, 2, 3>> >>

\* C14: a text of more comma-separated segments than the array has
\* elements, the empty segments counted, fails with "array length exceeds N
\* elements"; the count is checked before any segment is coerced, so a
\* segment that would not parse does not change the error, and the array is
\* left as it was.
C14_ArrayCapacityFirst ==
    [][(Coerces /\ cfield = "[2]int8" /\ Len(Split(cvalue, ",")) > 2) =>
          /\ cerr' = "array length exceeds 2 elements"
          /\ cslot' = cslot]_vars

\* three segments for two elements, the first of them not a number
C14_Witness ==
    /\ cpc = "done"
    /\ cfield = "[2]int8"
    /\ cvalue = << "x", ",", "1", ",", "2" >>
    /\ cerr = "array length exceeds 2 elements"
    /\ cslot = <<0, 0>>

\* the entries of a text that split on ':' into exactly two parts, in order
WellFormedEntries(text) ==
    SelectSeq(Split(text, ","), LAMBDA item : Len(Split(item, ":")) = 2)

\* the value a map entry gives its key: an empty part leaves the fresh slot zero
EntryKey(item) == Split(item, ":")[1]
EntryValue(item) ==
    IF Split(item, ":")[2] = << >> THEN 0 ELSE DecimalOf(Split(item, ":")[2])
EntryWritten(item) ==
    Split(item, ":")[2] = << >> \/ WritesA("int8", Split(item, ":")[2])

\* C15: a text coerced into a map: an entry that does not split on ':' into
\* exactly two parts is skipped without error and without effect on the
\* other entries; the map holds exactly the well-formed entries, a later
\* entry replacing an earlier one of the same key.  Only a well-formed entry
\* that does not coerce makes the coercion fail.
C15_MapOfWellFormedEntries ==
    [][(Coerces /\ cfield = "map[string]int8") =>
          LET entries == WellFormedEntries(cvalue)
              last(k) == entries[CHOOSE n \in 1..Len(entries) :
                                    /\ EntryKey(entries[n]) = k
                                    /\ \A m \in (n + 1)..Len(entries) :
                                          EntryKey(entries[m]) # k]
          IN  IF \A n \in 1..Len(entries) : EntryWritten(entries[n])
              THEN /\ cerr' = "nil"
                   /\ cslot' # << >>
                   /\ DOMAIN cslot'[1] =
                         { EntryKey(entries[n]) : n \in 1..Len(entries) }
                   /\ \A k \in DOMAIN cslot'[1] : cslot'[1][k] = EntryValue(last(k))
              ELSE /\ cerr' # "nil"
                   /\ cslot' = cslot]_vars

\* "a:1,b,c:2:3": the entries of one part and of three parts were skipped
C15_Witness ==
    /\ cpc = "done"
    /\ cfield = "map[string]int8"
    /\ cvalue = << "a", ":", "1", ",", "b", ",", "c", ":", "2", ":", "3" >>
    /\ cerr = "nil"
    /\ cslot # << >>
    /\ DOMAIN cslot[1] = { <<"a">> }
    /\ cslot[1][<<"a">>] = 1

\* the text has the form "/<prefix-length>"
IsPrefixLength(s) ==
    /\ Len(s) >= 2
    /\ s[1] = "/"
    /\ \A n \in 2..Len(s) : IsDigit(s[n])

\* bit k (1 the most significant, 32 the least) of a mask of four bytes
MaskBit(mask, k) == (mask[((k - 1) \div 8) + 1] \div (2 ^ (7 - ((k - 1) % 8)))) % 2

\* C16: a network-mask field requires a text of the form
\* "/<prefix-length>": for such a text of length n the field becomes the
\* 32-bit mask of n leading one bits, and any other text is rejected with an
\* error and leaves the field as it was.
C16_MaskFromPrefixLengthOnly ==
    [][(Coerces /\ cfield = "net.IPMask") =>
          IF IsPrefixLength(cvalue)
          THEN /\ cerr' = "nil"
               /\ cslot' # << >>
               /\ Len(cslot'[1]) = 4
               /\ \A k \in 1..32 :
                     MaskBit(cslot'[1], k) =
                        (IF k <= Number(Tail(cvalue), 10) THEN 1 ELSE 0)
          ELSE /\ cerr' # "nil"
               /\ cslot' = cslot]_vars

\* C17: an integer field of width w, signed or unsigned: the coercion
\* succeeds exactly when the text writes a base-10 integer of the range of
\* the w-bit type, and the field then holds that integer; any other text,
\* out of range or not a number, fails with a numeric-parse error and the
\* field keeps its value: nothing wrapped or truncated is stored.
C17_IntegerWithinItsWidth ==
    [][(Coerces /\ cfield \in {"int8", "uint8", "int"}) =>
          IF WritesA(cfield, cvalue)
          THEN /\ cerr' = "nil"
               /\ cslot' = DecimalOf(cvalue)
          ELSE /\ cerr' = (IF IsDecimal(cvalue, Signed(cfield))
                           THEN "ErrRange" ELSE "ErrSyntax")
               /\ cslot' = cslot
               /\ cslot' >= Least(cfield)
               /\ cslot' <= Greatest(cfield)]_vars

\* 128 is one more than an int8 holds
C17_Witness ==
    /\ cpc = "done"
    /\ cfield = "int8"
    /\ cvalue = << "1", "2", "8" >>
    /\ cerr = "ErrRange"
    /\ cslot = 0

-----------------------------------------------------------------------------
(* The tree PrepareEnvs builds of one entry                                *)

\* the map reached from m through the nested maps under the keys of path;
\* the empty map when a key is missing or holds a text
RECURSIVE TreeAt(_, _)
TreeAt(m, path) ==
    IF path = << >> THEN m
    ELSE IF Head(path) \notin DOMAIN m \/ ~m[Head(path)].IsMap THEN EmptyMap
    ELSE TreeAt(m[Head(path)].Map, Tail(path))

\* PrepareEnvs returned and accepted exactly one entry of the list
OneAccepted == epc = "done" /\ Cardinality(AcceptedSoFar) = 1
TheAccepted == CHOOSE k \in AcceptedSoFar : TRUE

\* C19: when exactly one entry is accepted and its name splits into the
\* segments s1..sn, the tree PrepareEnvs returns holds these keys and no
\* others: inside s1 -> ... -> s(i-1), for every i in 1..n, the key
\* join(si..sn, "_") with the value, and for i < n the key si with the
\* sub-tree of the next depth.
C19_TreeOfOneEntry ==
    OneAccepted =>
        LET keys == KeysOf(TheAccepted)
            n == Len(keys)
        IN  \A d \in 1..n :
                LET tree == TreeAt(out, SubSeq(keys, 1, d - 1))
                    suffix == Join(SubSeq(keys, d, n), envDelimiter)
                IN  /\ DOMAIN tree = {suffix} \cup (IF d < n THEN {keys[d]} ELSE {})
                    /\ tree[suffix] = LeafEntry(ValueOf(TheAccepted))
                    /\ d < n => tree[keys[d]].IsMap

\* A_B_C=4 alone: A_B_C, A -> B_C, A -> B -> C
C19_Witness ==
    /\ OneAccepted
    /\ KeysOf(TheAccepted) = << <<"A">>, <<"B">>, <<"C">> >>
    /\ DOMAIN out = { <<"A", "_", "B", "_", "C">>, <<"A">> }
    /\ DOMAIN out[<<"A">>].Map = { <<"B", "_", "C">>, <<"B">> }
    /\ DOMAIN out[<<"A">>].Map[<<"B">>].Map = { <<"C">> }
    /\ out[<<"A">>].Map[<<"B">>].Map[<<"C">>] = LeafEntry(<<"4">>)

-----------------------------------------------------------------------------
(* Properties of ParseTagOptions                                           *)

\* the tokens of the flag annotation after the first
LaterTokens == Tail(Split(ptag.flag, ","))

\* C20: ParseTagOptions takes the full name from the first comma-separated
\* token and matches base:, short: and config:true against the tokens after
\* it only: whatever the first token is, it sets neither the short name nor
\* the encoding base nor the config flag.
C20_FirstTokenIsTheNameOnly ==
    ppc = "done" =>
        /\ popt[1].FlagFullName = Split(ptag.flag, ",")[1]
        /\ (\A n \in 1..Len(LaterTokens) : ~HasPrefix(LaterTokens[n], TxtShort))
              => popt[1].FlagShortName = << >>
        /\ (\A n \in 1..Len(LaterTokens) : ~HasPrefix(LaterTokens[n], TxtBase))
              => popt[1].FlagEncodeBase = << >>
        /\ (\A n \in 1..Len(LaterTokens) : ~EqualFold(LaterTokens[n], TxtConfigTrue))
              => ~popt[1].FlagConfig
-----------------------------------------------------------------------------
(* New(config, options...).Load(v) with options: the loop over the options *)
(* and then the loop over svc.LoaderOrder, with a record of every call     *)
(* Load makes.  A parser is named by a string: the built-in ones by their  *)
(* type, the custom ones as below.                                         *)

ParserJSON == "json"

\* NewCustomParser("json", f) with f returning nil, the same with f returning
\* an error, and NewCustomParser(ParserEnv, f) with f returning nil
CustomJSON == "customJSON"
CustomFailing == "customFailing"
CustomEnv == "customEnv"
CustomParsers == {CustomJSON, CustomFailing, CustomEnv}

\* p.Type()
TypeOfParser(p) ==
    CASE p \in {CustomJSON, CustomFailing} -> ParserJSON
      [] p = CustomEnv -> ParserEnv
      [] OTHER -> p

\* l.groups[p.Type()] = p
Register(groups, p) ==
    [typ \in DOMAIN groups \cup {TypeOfParser(p)} |->
        IF typ = TypeOfParser(p) THEN p ELSE groups[typ]]

\* WithCustomParser(p): a nil p (<< >>) is left out
WithCustomParser(p) == [kind |-> "WithCustomParser", parser |-> p, err |-> "nil"]

\* WithCustomParserInit(fabric): parser and err are what fabric returns
WithCustomParserInit(p, err) ==
    [kind |-> "WithCustomParserInit", parser |-> p, err |-> err]

\* the option WithCustomParserInit returns, applied to the loader:
\* parser.Type() on a nil Parser is a nil dereference
ApplyInit(o, groups) ==
    IF o.err # "nil" THEN [groups |-> groups, err |-> o.err]
    ELSE IF o.parser = << >> THEN [groups |-> groups, err |-> "panic"]
    ELSE [groups |-> Register(groups, o.parser[1]), err |-> "nil"]

\* option(svc): the groups afterwards and the error
ApplyOption(o, groups) ==
    IF o.kind = "WithCustomParser"
    THEN (IF o.parser = << >> THEN [groups |-> groups, err |-> "nil"]
          ELSE [groups |-> Register(groups, o.parser[1]), err |-> "nil"])
    ELSE ApplyInit(o, groups)

\* the options handed to New
OptionPool ==
    { WithCustomParser(<< >>), WithCustomParser(<<CustomJSON>>),
      WithCustomParser(<<CustomFailing>>), WithCustomParser(<<CustomEnv>>),
      WithCustomParserInit(<<CustomJSON>>, "nil"),
      WithCustomParserInit(<< >>, "init failed"),
      WithCustomParserInit(<< >>, "nil") }

MaxOptions == 2

OptionLists == UNION { [1..n -> OptionPool] : n \in 0..MaxOptions }

NewOrders ==
    { << >>,
      << <<ParserDefaults, ParserJSON, ParserEnv>> >>,
      << <<ParserJSON, ParserFlags>> >>,
      << <<ParserEnv, ParserEnv, ParserDefaults>> >>,
      << << >> >> }

NewConfigs ==
    { [SkipDefaults |-> sk[1], SkipEnv |-> sk[2], SkipFlags |-> sk[3],
       EnvPrefix |-> << >>, LoaderOrder |-> lo, Envs |-> en, Args |-> << >>]
      : sk \in {<<FALSE, FALSE, FALSE>>, <<FALSE, TRUE, FALSE>>},
        lo \in NewOrders, en \in {<<Txt_N_n, Txt_T_t>>, <<Txt_P_x>>} }

NewTargets ==
    { PointerTo("struct {}"), PointerTo("Service"), PointerTo("Strict"),
      PointerTo("Sealed") }

\* parser := New(config, options...); parser.Load(&cfg) is about to run
NewInit ==
    /\ target \in NewTargets
    /\ dest = ZeroRecord(target.ElemType)
    /\ config \in NewConfigs
    /\ svc = setLoaderDefaults(config)
    /\ ord = 1
    /\ lpc = "order"
    /\ lerr = NoError
    /\ lopts \in OptionLists
    /\ lopt = 1
    /\ lcalls = << >>
    /\ WalkIdle
    /\ EnvIdle
    /\ CoerceIdle
    /\ TagIdle

Called(op, arg, err) == [op |-> op, arg |-> arg, ok |-> err = NoError]

\* if err := option(svc); err != nil { return fmt.Errorf(...) }
NewOption ==
    /\ lpc = "order"
    /\ lopt <= Len(lopts)
    /\ \E r \in {ApplyOption(lopts[lopt], svc.groups)} :
          /\ svc' = [svc EXCEPT !.groups = r.groups]
          /\ lopt' = IF r.err = "nil" THEN lopt + 1 ELSE lopt
          /\ lpc' = IF r.err = "panic" THEN "panic"
                    ELSE IF r.err # "nil" THEN "done"
                    ELSE lpc
          /\ lerr' = IF r.err \in {"nil", "panic"} THEN lerr
                     ELSE Err("gonfig: could not init option", "", r.err, << >>)
          /\ lcalls' = Append(lcalls,
                              Called("option", lopts[lopt].kind,
                                     IF r.err = "nil" THEN NoError
                                     ELSE Err("option", "", r.err, << >>)))
    /\ UNCHANGED <<target, dest, config, ord, lopts>>
    /\ UNCHANGED notNew

\* the loop over the options is over
OptionsApplied == lopt > Len(lopts)

\* if svc.groups[typ] == nil { return fmt.Errorf("gonfig: empty parser %s", typ) }
NewEmptyParser ==
    /\ OptionsApplied
    /\ InOrder
    /\ LoaderOrder[ord] \notin DOMAIN svc.groups
    /\ lerr' = Err("gonfig: empty parser", LoaderOrder[ord], "nil", << >>)
    /\ lpc' = "done"
    /\ UNCHANGED <<target, dest, config, svc, ord, optionVars>>
    /\ UNCHANGED notNew

\* p.Load(v) of the parser p registered in svc.groups
ParserLoad(p, in, d) ==
    CASE p = ParserDefaults -> SetDefaults(in, d)
      [] p = ParserEnv ->
            LoadEnvs(PrepareEnvs(svc.Config.Envs, svc.Config.EnvPrefix), in, d)
      [] p = ParserFlags -> LoadFlags(svc.Config.Args, in, d)
      [] p = CustomFailing ->
            [dest |-> d, err |-> Err("custom parser failed", "", "nil", << >>)]
      [] OTHER -> [dest |-> d, err |-> NoError]

\* Load goes on to the next parser although this one returned an error
LoadReturnsNever(err) == FALSE

\* if err := svc.groups[typ].Load(v); err != nil { return err }
LoadReturns(err) == err # NoError

\* one pass of the loop over svc.LoaderOrder with a parser present
NewParser ==
    /\ OptionsApplied
    /\ InOrder
    /\ LoaderOrder[ord] \in DOMAIN svc.groups
    /\ \E r \in {ParserLoad(svc.groups[LoaderOrder[ord]], target, dest)} :
          /\ dest' = r.dest
          /\ lcalls' = Append(lcalls, Called("load", LoaderOrder[ord], r.err))
          /\ IF r.err.cause = "panic"
             THEN lpc' = "panic" /\ UNCHANGED <<ord, lerr>>
             ELSE IF LoadReturns(r.err)
             THEN lpc' = "done" /\ lerr' = r.err /\ UNCHANGED ord
             ELSE ord' = ord + 1 /\ UNCHANGED <<lpc, lerr>>
    /\ UNCHANGED <<target, config, svc, lopts, lopt>>
    /\ UNCHANGED notNew

\* return ValidateRequiredFields(v)
NewValidate ==
    /\ OptionsApplied
    /\ lpc = "order"
    /\ ord > Len(LoaderOrder)
    /\ \E r \in {ValidateRequiredFields(target, dest)} :
          /\ lerr' = r
          /\ lcalls' = Append(lcalls, Called("validate", "", r))
    /\ lpc' = "done"
    /\ UNCHANGED <<target, dest, config, svc, ord, lopts, lopt>>
    /\ UNCHANGED notNew

NewNext ==
    \/ NewOption
    \/ NewEmptyParser
    \/ NewParser
    \/ NewValidate

SpecNew == NewInit /\ [][NewNext]_vars

-----------------------------------------------------------------------------
(* Properties of New and Load with options                                 *)

\* a factory that returns a nil parser and a nil error
NilFactory == WithCustomParserInit(<< >>, "nil")

IsOption(c) == c.op = "option"
IsLoad(c) == c.op = "load"
IsValidate(c) == c.op = "validate"
OptionCalls == SelectSeq(lcalls, IsOption)
LoadCalls == SelectSeq(lcalls, IsLoad)
ValidateCalls == SelectSeq(lcalls, IsValidate)

\* C21: with the one option WithCustomParserInit whose factory returns a nil
\* parser and a nil error, on an empty record and a Config that skips
\* nothing and sets no order, the option registers nothing, the parser table
\* stays the one setLoaderDefaults built, and Load ends without an error and
\* without a panic.
C21_NilFactoryRegistersNothing ==
    (/\ lopts = <<NilFactory>>
     /\ target = PointerTo("struct {}")
     /\ config.LoaderOrder = << >>
     /\ ~config.SkipDefaults /\ ~config.SkipEnv /\ ~config.SkipFlags)
       => /\ lpc # "panic"
          /\ svc.groups = setLoaderDefaults(config).groups
          /\ (lpc = "done" => lerr = NoError)

-----------------------------------------------------------------------------
(* The order of the missing fields in the error of ValidateRequiredFields  *)

\* the position in the root record of the field a root-level entry names
DeclaredAt(entry) ==
    CHOOSE n \in 1..Len(StructFields(target.ElemType)) :
        StructFields(target.ElemType)[n].Name = entry.Path[1]

\* C22: the error of ValidateRequiredFields lists the missing fields of the
\* root record, in declaration order, before every missing field of a
\* nested record, wherever the nested record is declared.
C22_RootFieldsListedFirst ==
    Validated =>
        \A a, b \in 1..Len(lerr.missing) :
            a < b =>
                /\ Len(lerr.missing[b].Path) = 1 => Len(lerr.missing[a].Path) = 1
                /\ (Len(lerr.missing[a].Path) = 1 /\ Len(lerr.missing[b].Path) = 1)
                      => DeclaredAt(lerr.missing[a]) < DeclaredAt(lerr.missing[b])

-----------------------------------------------------------------------------
(* The special formats below the top level                                 *)

\* the types tryCustomTypes has a case for, among the types of the model
SpecialTypes == {"time.Duration", "net.IPMask"}

\* the segments of the text as the slice case takes them
Segments == NonEmptyItems(Split(cvalue, ","))

\* the n-th segment coerced as a field of the element type of its own is
SegmentAlone(n) ==
    tryCustomTypes(RV(ElemOf(cfield), <<1>>, TRUE, FALSE, FALSE),
                   Zero(ElemOf(cfield)), Segments[n])

\* C30: the special textual formats are honoured at every nesting level:
\* a slice whose element type is one of the special types coerces each
\* segment by the rule of that type, with the result a field of the
\* element type receives from the same text, and fails only when a segment
\* fails by that rule.
C30_SpecialFormatsInsideSlices ==
    [][(Coerces /\ KindOf(cfield) = "slice" /\ ElemOf(cfield) \in SpecialTypes)
          => IF \A n \in 1..Len(Segments) : SegmentAlone(n).err = ErrEnvSetterBreak
             THEN /\ cerr' = "nil"
                  /\ cslot' = << [n \in 1..Len(Segments) |-> SegmentAlone(n).val] >>
             ELSE cerr' # "nil"]_vars

-----------------------------------------------------------------------------
(* The required annotation as the tag parser and the validator read it     *)

\* C29: ValidateRequiredFields and ParseTagOptions agree on which fields
\* are required: for every text of the required annotation the validator
\* takes the field as required exactly when ParseTagOptions reports
\* FieldRequired for the same annotation.
C29_ValidatorAgreesWithTagOptions ==
    (ppc = "done") =>
       (popt[1].FieldRequired <=> ~NotRequired(ptag.required))

-----------------------------------------------------------------------------
(* SetDefaults and the fields that cannot be set                           *)

\* the places of the unexported fields of the target that carry a default
SealedPlaces ==
    { p \in Slots(target.ElemType) :
         /\ ~FieldAt(target.ElemType, p).Exported
         /\ FieldAt(target.ElemType, p).Tag.default # << >> }

\* C28: SetDefaults never writes to a field that is not settable nor reads
\* it out with Interface(): on a record with an unexported field that
\* carries a default annotation it completes without a panic and leaves
\* that field as it was.
C28_UnexportedFieldIsLeftAlone ==
    [][(DefaultsNext /\ SealedPlaces # {})
          => /\ lpc' # "panic"
             /\ \A p \in SealedPlaces : dest'[p] = dest[p]]_vars

-----------------------------------------------------------------------------
(* A composite coercion that fails                                         *)

CompositeKinds == {"slice", "array", "map", "ptr"}

\* C27: composite coercion is all-or-nothing: when the coercion of a
\* slice, array, map or pointer field fails on some segment, the field is
\* left exactly as it was before the call.
C27_FailedCompositeLeavesTheSlot ==
    [][(CoerceNext /\ KindOf(cfield) \in CompositeKinds /\ cerr' # "nil")
          => cslot' = cslot]_vars

\* the second segment of a slice failed after the first had been coerced
C27_Witness ==
    /\ cpc = "done"
    /\ cfield = "[]int8"
    /\ cvalue = <<"1", ",", "x">>
    /\ cerr # "nil"
    /\ cslot = << >>

-----------------------------------------------------------------------------
(* PrepareEnvs and the order of its input                                  *)

\* the name of an entry: what stands before the first "="
EntryName(env) == SplitN2(env, envPairDelim)[1]

\* no two entries of the list carry the same name
DistinctNames(list) ==
    \A a, b \in 1..Len(list) : a # b => EntryName(list[a]) # EntryName(list[b])

\* the lists that hold the entries of `list` in another order
Reorderings(list) ==
    { [n \in 1..Len(list) |-> list[f[n]]] : f \in Permutations(1..Len(list)) }

\* the entry at place a is a pair no shorter pair's name is a prefix of
Outermost(list, a) ==
    /\ ~Discarded(list[a], << >>)
    /\ \A b \in 1..Len(list) :
          ~Discarded(list[b], << >>)
             => ~ProperPrefixOf(EnvKeys(list[b], << >>), EnvKeys(list[a], << >>))

\* C26: PrepareEnvs with an empty prefix is insensitive to the order of
\* its input when the names of the entries are pairwise distinct: every
\* reordering of the list yields the same tree.  When one name is a
\* segment-wise proper prefix of another, the text of the shorter name
\* occupies the shared key and nothing is found under the longer name,
\* whichever entry came first.
C26_OrderOfDistinctNames ==
    (epc = "done" /\ prefix = << >> /\ DistinctNames(envs)) =>
       /\ \A list \in Reorderings(envs) : PrepareEnvs(list, prefix) = out
       /\ \A a \in 1..Len(envs) :
             Outermost(envs, a) =>
                /\ Resolve(out, EnvKeys(envs[a], prefix)) = << EnvParts(envs[a], prefix)[2] >>
                /\ \A b \in 1..Len(envs) :
                      (~Discarded(envs[b], prefix)
                         /\ ProperPrefixOf(EnvKeys(envs[a], prefix), EnvKeys(envs[b], prefix)))
                         => Resolve(out, EnvKeys(envs[b], prefix)) = << >>

\* A_B_C came first and A_B after it, with a third pair between them
C26_Witness ==
    /\ epc = "done"
    /\ prefix = << >>
    /\ envs = << <<"A", "_", "B", "_", "C", "=", "4">>,
                 <<"Q", "_", "A", "=", "7">>,
                 <<"A", "_", "B", "=", "2">> >>
    /\ Resolve(out, <<<<"A">>, <<"B">>>>) = << <<"2">> >>
    /\ Resolve(out, <<<<"A">>, <<"B">>, <<"C">>>>) = << >>

-----------------------------------------------------------------------------
(* Properties of the fallback slice hook.                                  *)

\* the pieces of the text of the variable
HookPieces == Split(cvalue, ",")

\* every piece decodes into the element type of the destination
PiecesDecode ==
    \A n \in 1..Len(HookPieces) :
       decodeEnv(ElemOf(cfield), Zero(ElemOf(cfield)), HookPieces[n]).err = "nil"

\* C25: the fallback slice hook, given a string source and a destination of
\* slice kind, returns a slice with exactly one decoded element per
\* comma-separated piece, in order: as long as the number of pieces, with no
\* extra zero elements.
C25_OneElementPerPiece ==
    (cpc = "decoded") =>
       /\ Len(cslot[1]) = Len(HookPieces)
       /\ \A n \in 1..Len(HookPieces) :
             cslot[1][n]
                = decodeEnv(ElemOf(cfield), Zero(ElemOf(cfield)), HookPieces[n]).val

====
